---- MODULE Spec2Model ----
(***************************************************************************)
(* Generic scheduling of one appliance (lib/BaseDevice.js with             *)
(* genericScheduling enabled) on top of the adapter's event dispatch       *)
(* (main.js).  Every async handler is a task; a task runs from one await   *)
(* to the next in one step.  A store operation takes effect when it is     *)
(* issued (operations of one client are served in issue order); the task   *)
(* resumes in a later step, so other tasks, state-change events, operator  *)
(* writes and timer firings interleave exactly at the awaits.              *)
(* One unit of time is 24 hours.                                           *)
(***************************************************************************)
EXTENDS Bags, FiniteSets, Integers, Sequences, TLC

MaxTime   == 2      \* the clock runs 0..MaxTime
MaxTasks  == 2      \* handlers in flight at once
MaxEvents == 1      \* undelivered state-change events an operator may add to
MaxTimers == 3      \* timers created in one behaviour
MaxOps    == 2      \* operator writes, API calls and restarts in one behaviour

Horizon == 2        \* 48 * 60 * 60 * 1000 ms, in units of 24 h

\* The dishwasher (lib/DishwasherDevice.js) runs on a finer clock; its
\* configured durations keep the order of the defaults:
\* 2 s < 10 s < 30 s, 2 min < 10 min < 110 min.
DwMaxTime    == 8   \* the dishwasher's clock runs BootTime..BootTime + DwMaxTime
EPS          == 1   \* config.powerThreshold
MaxPower     == 2   \* power samples are 0..MaxPower
ReplanDelay  == 1   \* setTimeout(..., 2000) before scheduleOptimalStart
DETECT_TIME  == 2   \* config.detectTimeSeconds
AutoFlagTime == 3   \* setTimeout(..., 30000) that clears automaticStartInProgress
POST_CONFIRM == 1   \* config.postConfirmMinutes
ZERO_GRACE   == 2   \* config.zeroGraceMinutes
COOLDOWN     == 2   \* config.cooldownMinutes
MIN_RUNTIME  == 3   \* config.minRuntimeMinutes
BootTime     == 2   \* Date.now() when the process starts: later than COOLDOWN after 0
DwHorizon    == 4   \* 24 * 60 * 60 * 1000 ms, on the dishwasher's clock
HourLen        == 2 \* 1000 * 60 * 60 ms: the length of one price interval
REQUIRED_HOURS == 2 \* config.requiredHours
LifeMaxTime  == 6   \* the clock of a life cycle runs BootTime..BootTime + LifeMaxTime
LifeOps      == 1   \* operator writes, faults and stops in one life cycle

\* start instants an operator or a caller may name: up to one unit past the clock
Instants == 0..(MaxTime + 1)

VARIABLES
    now,         \* Date.now()
    store,       \* state store: devices.<id>.{running, scheduled, startTime}
    events,      \* stateChange events published to this adapter, not yet delivered
    registered,  \* adapter.devices holds the device (set after init() returned)
    timers,      \* pending setTimeout timers of the device: [id, due]
    handle,      \* this._scheduledTimer: 0 (null) or a timer id
    nextTid,     \* next fresh timer id
    tasks,       \* bag of suspended async handlers
    switchOn,    \* the switch actuator (config.switchStateId)
    cleared,     \* ids of the timers that clearTimeout removed while pending
    performedBy, \* timer id -> performScheduledStart invocations it caused (0..2)
    persisted,   \* the store as the last process start found it
    budget,      \* environment operations left
    last,        \* the step just taken: [op, v]
    power,       \* the power measurement (config.powerStateId), last sample
    appTimers,   \* adapter.timers: pending keyed timers [key, due]
    rawTimeouts, \* pending plain setTimeout callbacks of the dishwasher [key, due]
    dev,         \* fields of the DishwasherDevice object
    obs,         \* what an observer of the dishwasher has seen so far
    plan,        \* the washing machine's planning: its call and the planned.* states
    reads        \* state reads of suspended power-sample handlers, oldest first

dwVars == <<power, appTimers, rawTimeouts, dev, obs>>

vars == <<now, store, events, registered, timers, handle, nextTid, tasks,
          switchOn, cleared, performedBy, persisted, budget, last, dwVars,
          plan, reads>>

----------------------------------------------------------------------------
(* Values of the startTime state.  An operator types some parseable text    *)
(* ("raw"), the code writes Date.toISOString() ("iso").                     *)

Empty == [k |-> "empty", t |-> 0]
Bad   == [k |-> "bad", t |-> 0]
Raw(t) == [k |-> "raw", t |-> t]

ToISOString(t) == [k |-> "iso", t |-> t]

\* !value
IsEmpty(val) == val.k = "empty"

\* isNaN(new Date(value).getTime())
IsNaNDate(val) == val.k \notin {"raw", "iso"}

\* new Date(value).getTime()
GetTime(val) == val.t

OperatorStartTimes == {Empty, Bad} \cup {Raw(t) : t \in Instants}

----------------------------------------------------------------------------
(* Tasks *)

NoTimer == 0
Immediate == 0

\* DishwasherDevice constructor: no timer handle set, no finish seen
DevInit ==
    [detectionTimer |-> FALSE, startTimer |-> FALSE, endTimer |-> FALSE,
     postTimer |-> FALSE, scheduledStartTimer |-> FALSE,
     lastAboveZeroTs |-> 0, lastFinishTs |-> 0,
     automaticStartInProgress |-> FALSE]

\* manual: manual-start signals since the last sample <= EPS; lowTs: time of
\* that sample; runStart: when startDevice ran last; edited: the operator
\* wrote startTime since then; stopped: stop() was called
ObsInit == [manual |-> 0, lowTs |-> 0, runStart |-> 0, edited |-> FALSE,
            stopped |-> FALSE]

\* pc: where the handler is suspended; by: the entry point that started it;
\* v: the start instant it works on; rs, rt: the scheduled and startTime values
\* it read last; notify: cancelScheduledStart's argument; origin: the timer
\* whose callback called _executeScheduledStart (Immediate: a direct call)
Task(pc, by, v, rs, rt, notify, origin) ==
    [pc |-> pc, by |-> by, v |-> v, rs |-> rs, rt |-> rt, notify |-> notify,
     origin |-> origin]

Running == BagToSet(tasks)
Spawn(bag, t) == bag (+) SetToBag({t})
Drop(bag, t) == bag (-) SetToBag({t})
Become(t, u) == Spawn(Drop(tasks, t), u)
At(t, pc) == [t EXCEPT !.pc = pc]
Room == BagCardinality(tasks) < MaxTasks

Min(a, b) == IF a < b THEN a ELSE b

\* main.js onStateChange forwards an event to device.onStateChange; the base
\* handler reacts to operator writes of startTime and scheduled, to acked
\* startTime and to acked scheduled = false, and only logs everything else.
Handled(e) ==
    \/ ~e.ack
    \/ e.id = "startTime"
    \/ e.id = "scheduled" /\ e.sval = FALSE

Event(id, sval, tval, ack) == [id |-> id, sval |-> sval, tval |-> tval, ack |-> ack]

Publish(q, e) == IF Handled(e) THEN Append(q, e) ELSE q

\* adapter.setStateAsync(`devices.<id>.scheduled`, b, true)
WriteScheduled(st, b) == [st EXCEPT !.scheduled = b]
\* adapter.setStateAsync(`devices.<id>.startTime`, val, true)
WriteStartTime(st, val) == [st EXCEPT !.startTime = val]

----------------------------------------------------------------------------
(* The scheduled-start timer *)

\* variant: clearTimeout has no effect on the pending timer
ClearTimeoutIgnored(tm, h) == tm

\* clearTimeout(h): the timer never fires afterwards
ClearTimeout(tm, h) == {x \in tm : x.id # h}

\* _clearScheduledTimer: if (this._scheduledTimer) { clearTimeout(...); ... = null }
ClearScheduledTimer(tm, h) == IF h # NoTimer THEN ClearTimeout(tm, h) ELSE tm

\* variant: setTimeout without clearing the timer armed before
SetTimeoutOnly(tm, h, id, nw, delay) == tm \cup {[id |-> id, due |-> nw + delay]}

\* _setScheduledTimer(delay): clear the armed timer, then setTimeout(..., delay)
SetScheduledTimerTimers(tm, h, id, nw, delay) ==
    ClearScheduledTimer(tm, h) \cup {[id |-> id, due |-> nw + delay]}

SetScheduledTimer(delay) ==
    /\ nextTid <= MaxTimers
    /\ timers' = SetScheduledTimerTimers(timers, handle, nextTid, now, delay)
    /\ cleared' = cleared \cup {x.id : x \in {y \in timers : y.id = handle}}
    /\ handle' = nextTid
    /\ nextTid' = nextTid + 1

timerVars == <<timers, handle, nextTid, cleared>>

----------------------------------------------------------------------------
(* What each handler decides once it knows the start time *)

\* variant: only a start strictly in the past executes at once
ScheduleDecisionStrict(start, nw) == IF start - nw < 0 THEN "execute" ELSE "arm"

\* scheduleStartAt: delay = start - Date.now(); delay <= 0 executes, else arms
ScheduleDecision(start, nw) == IF start - nw <= 0 THEN "execute" ELSE "arm"

\* variant: a new startTime of a pending start is always executed at once
ManualStartTimeExecutesAlways(sched, start, nw) ==
    IF sched = TRUE THEN "execute" ELSE "none"

\* _handleManualStartTimeInput, after the acked write and the read of scheduled
ManualStartTimeDecision(sched, start, nw) ==
    IF sched = TRUE
    THEN (IF start - nw <= 0 THEN "execute" ELSE "arm")
    ELSE "none"

\* variant: any non-empty startTime is taken as usable
ManualScheduledAcceptsNonEmpty(val) == ~IsEmpty(val)

\* _handleManualScheduledInput(true): is the stored startTime usable
ManualScheduledAccepts(val) == ~IsEmpty(val) /\ ~IsNaNDate(val)

\* _handleManualScheduledInput(true), after scheduled = true was acked
ManualScheduledDecision(start, nw) == IF start - nw <= 0 THEN "execute" ELSE "arm"

\* _recalculateScheduledTimer, after the read of startTime
RecalculateDecision(val, nw) ==
    IF IsEmpty(val) THEN "none"
    ELSE IF IsNaNDate(val) THEN "cancel"
    ELSE IF GetTime(val) - nw <= 0 THEN "execute"
    ELSE "arm"

\* variant: a start exactly 48 h away is cancelled as well
RestoreDecisionClosed(sched, val, nw) ==
    IF sched = TRUE /\ ~IsEmpty(val)
    THEN (IF IsNaNDate(val) THEN "cancel"
          ELSE IF GetTime(val) - nw <= 0 THEN "execute"
          ELSE IF GetTime(val) - nw >= Horizon THEN "cancel"
          ELSE "arm")
    ELSE "none"

\* restoreScheduledOperations, after the reads of scheduled and startTime
RestoreDecision(sched, val, nw) ==
    IF sched = TRUE /\ ~IsEmpty(val)
    THEN (IF IsNaNDate(val) THEN "cancel"
          ELSE IF GetTime(val) - nw <= 0 THEN "execute"
          ELSE IF GetTime(val) - nw > Horizon THEN "cancel"
          ELSE "arm")
    ELSE "none"

\* variant: cancelScheduledStart without the early return
CancelNeverSkips(sched) == FALSE

\* cancelScheduledStart: if (sched?.val !== true) return
CancelSkips(sched) == sched # TRUE

\* _executeScheduledStart: if (!scheduledState || scheduledState.val !== true) return
ExecuteAborts(sched) == sched # TRUE

\* variant: the flag is reset only when the try block ran through
ScheduledAfterSuccess(st, outcome) ==
    IF outcome = "ok" THEN WriteScheduled(st, FALSE) ELSE st

\* _executeScheduledStart: try { ... } catch { log } finally { scheduled = false }
\* outcome is "ok", or the stage of the try block that threw
ScheduledAfterTry(st, outcome) == WriteScheduled(st, FALSE)

\* first segment of _executeScheduledStart: getStateAsync(scheduled) is issued
ExecuteTask(by, origin) ==
    Task("ex_rd", by, 0, store.scheduled, Empty, FALSE, origin)

\* first segment of cancelScheduledStart(sendNotification)
CancelTask(by, notify) ==
    Task("ca_rd", by, 0, store.scheduled, Empty, notify, Immediate)

\* a handler returns; init() returning lets main.js register the device
Finish(t) ==
    /\ tasks' = Drop(tasks, t)
    /\ registered' = (registered \/ t.by = "init")

\* the tail of a handler: execute now, arm a timer, cancel, or just return
Apply(t, d, start) ==
    \/ /\ d = "execute"
       /\ tasks' = Become(t, ExecuteTask(t.by, Immediate))
       /\ UNCHANGED <<timerVars, registered>>
    \/ /\ d = "cancel"
       /\ tasks' = Become(t, CancelTask(t.by, TRUE))
       /\ UNCHANGED <<timerVars, registered>>
    \/ /\ d = "arm"
       /\ SetScheduledTimer(start - now)
       /\ Finish(t)
    \/ /\ d = "none"
       /\ Finish(t)
       /\ UNCHANGED timerVars

Step(op, v) == last' = [op |-> op, v |-> v]

histVars == <<performedBy, persisted>>

\* an environment operation uses up one unit of the budget
Use == budget > 0 /\ budget' = budget - 1 /\ UNCHANGED <<dwVars, plan, reads>>
Keep == budget' = budget /\ UNCHANGED <<dwVars, plan, reads>>

----------------------------------------------------------------------------
(* The environment: time, the operator, callers of the scheduling API *)

\* time passes; a timer that is due fires before the clock moves on
Tick ==
    /\ Keep
    /\ now < MaxTime
    /\ \A x \in timers : x.due > now
    /\ now' = now + 1
    /\ Step("Tick", 0)
    /\ UNCHANGED <<store, events, registered, timerVars, tasks, switchOn, histVars>>

\* an operator writes startTime with ack = false: the store holds the value at
\* once, the adapter is told by a stateChange event
OperatorWriteStartTime ==
    /\ Use
    /\ Len(events) < MaxEvents
    /\ \E val \in OperatorStartTimes :
          /\ store' = WriteStartTime(store, val)
          /\ events' = Append(events, Event("startTime", FALSE, val, FALSE))
          /\ Step("OperatorWriteStartTime", 0)
    /\ UNCHANGED <<now, registered, timerVars, tasks, switchOn, histVars>>

\* an operator writes scheduled with ack = false
OperatorWriteScheduled ==
    /\ Use
    /\ Len(events) < MaxEvents
    /\ \E b \in BOOLEAN :
          /\ store' = WriteScheduled(store, b)
          /\ events' = Append(events, Event("scheduled", b, Empty, FALSE))
          /\ Step("OperatorWriteScheduled", 0)
    /\ UNCHANGED <<now, registered, timerVars, tasks, switchOn, histVars>>

\* scheduleStartAt(startTime), up to its first await
ScheduleStartAt ==
    /\ Use
    /\ registered
    /\ Room
    /\ nextTid <= MaxTimers
    /\ \E arg \in {Bad} \cup {Raw(t) : t \in Instants} :
          IF IsNaNDate(arg)
          THEN /\ Step("scheduleStartAt_invalid", 0)
               /\ UNCHANGED <<store, events, tasks>>
          ELSE /\ store' = WriteStartTime(store, ToISOString(GetTime(arg)))
               /\ events' = Publish(events,
                      Event("startTime", FALSE, ToISOString(GetTime(arg)), TRUE))
               /\ tasks' = Spawn(tasks, Task("sc_w1", "scheduleStartAt", GetTime(arg),
                                             FALSE, Empty, FALSE, Immediate))
               /\ Step("scheduleStartAt", GetTime(arg))
    /\ UNCHANGED <<now, registered, timerVars, switchOn, histVars>>

\* cancelScheduledStart(), called directly, up to its first await
CancelScheduledStart ==
    /\ Use
    /\ registered
    /\ Room
    /\ tasks' = Spawn(tasks, CancelTask("cancelScheduledStart", TRUE))
    /\ Step("cancelScheduledStart", 0)
    /\ UNCHANGED <<now, store, events, registered, timerVars, switchOn, histVars>>

\* the timer callback: this._scheduledTimer = null; this._executeScheduledStart()
Fire ==
    /\ Keep
    /\ Room
    /\ \E x \in timers :
          /\ x.due <= now
          /\ timers' = timers \ {x}
          /\ handle' = NoTimer
          /\ tasks' = Spawn(tasks, ExecuteTask("timer", x.id))
          /\ Step("Fire", 0)
    /\ UNCHANGED <<now, store, events, registered, nextTid, cleared, switchOn, histVars>>

----------------------------------------------------------------------------
(* main.js onStateChange -> BaseDevice.onStateChange, up to the first await *)

\* an event that arrives before loadDevices registered the device finds no
\* device in adapter.devices and is only logged
DropEvent ==
    /\ Keep
    /\ events # <<>>
    /\ ~registered
    /\ events' = Tail(events)
    /\ Step("DropEvent", 0)
    /\ UNCHANGED <<now, store, registered, timerVars, tasks, switchOn, histVars>>

\* _handleManualStartTimeInput(value): empty and unparseable values are ignored,
\* a valid one is written back acked as an ISO string
ManualStartTime ==
    /\ Keep
    /\ events # <<>>
    /\ registered
    /\ Room
    /\ LET e == Head(events) IN
          /\ e.id = "startTime" /\ ~e.ack
          /\ IF IsEmpty(e.tval)
             THEN /\ events' = Tail(events)
                  /\ Step("mt_empty", 0)
                  /\ UNCHANGED <<store, tasks>>
             ELSE IF IsNaNDate(e.tval)
             THEN /\ events' = Tail(events)
                  /\ Step("mt_invalid", 0)
                  /\ UNCHANGED <<store, tasks>>
             ELSE /\ store' = WriteStartTime(store, ToISOString(GetTime(e.tval)))
                  /\ events' = Publish(Tail(events),
                         Event("startTime", FALSE, ToISOString(GetTime(e.tval)), TRUE))
                  /\ tasks' = Spawn(tasks, Task("mt_w", "manualStartTime", GetTime(e.tval),
                                                FALSE, Empty, FALSE, Immediate))
                  /\ Step("mt_write", 0)
    /\ UNCHANGED <<now, registered, timerVars, switchOn, histVars>>

\* _handleManualStartTimeInput, after the acked write: read scheduled
ManualStartTimeRead ==
    /\ Keep
    /\ \E t \in Running :
          /\ t.pc = "mt_w"
          /\ tasks' = Become(t, [t EXCEPT !.pc = "mt_rd", !.rs = store.scheduled])
          /\ Step("mt_read", 0)
    /\ UNCHANGED <<now, store, events, registered, timerVars, switchOn, histVars>>

\* _handleManualStartTimeInput, after the read of scheduled
ManualStartTimeDecide ==
    /\ Keep
    /\ \E t \in Running :
          /\ t.pc = "mt_rd"
          /\ \E d \in {ManualStartTimeDecision(t.rs, t.v, now)} :
                /\ Apply(t, d, t.v)
                /\ Step("mt_" \o d, t.v)
    /\ UNCHANGED <<now, store, events, switchOn, histVars>>

\* _handleManualScheduledInput(val): true reads startTime, false cancels
ManualScheduled ==
    /\ Keep
    /\ events # <<>>
    /\ registered
    /\ Room
    /\ LET e == Head(events) IN
          /\ e.id = "scheduled" /\ ~e.ack
          /\ events' = Tail(events)
          /\ IF e.sval
             THEN /\ tasks' = Spawn(tasks, Task("ms_rd", "manualScheduledTrue", 0, FALSE,
                                                store.startTime, FALSE, Immediate))
                  /\ Step("ms_true", 0)
             ELSE /\ tasks' = Spawn(tasks, CancelTask("manualScheduledFalse", TRUE))
                  /\ Step("ms_false", 0)
    /\ UNCHANGED <<now, store, registered, timerVars, switchOn, histVars>>

\* _handleManualScheduledInput(true), after the read of startTime: reject with
\* scheduled = false, or ack scheduled = true
ManualScheduledCheck ==
    /\ Keep
    /\ \E t \in Running :
          /\ t.pc = "ms_rd"
          /\ IF ManualScheduledAccepts(t.rt)
             THEN /\ store' = WriteScheduled(store, TRUE)
                  /\ events' = Publish(events, Event("scheduled", TRUE, Empty, TRUE))
                  /\ tasks' = Become(t, [t EXCEPT !.pc = "ms_w", !.v = GetTime(t.rt)])
                  /\ Step("ms_accept", GetTime(t.rt))
             ELSE /\ store' = WriteScheduled(store, FALSE)
                  /\ events' = Publish(events, Event("scheduled", FALSE, Empty, TRUE))
                  /\ tasks' = Become(t, At(t, "ms_rej"))
                  /\ Step("ms_reject", 0)
    /\ UNCHANGED <<now, registered, timerVars, switchOn, histVars>>

\* _handleManualScheduledInput(true): return after the rejecting write
ManualScheduledRejected ==
    /\ Keep
    /\ \E t \in Running :
          /\ t.pc = "ms_rej"
          /\ Finish(t)
          /\ Step("ms_rejected", 0)
    /\ UNCHANGED <<now, store, events, timerVars, switchOn, histVars>>

\* _handleManualScheduledInput(true), after scheduled = true was acked
ManualScheduledDecide ==
    /\ Keep
    /\ \E t \in Running :
          /\ t.pc = "ms_w"
          /\ \E d \in {ManualScheduledDecision(t.v, now)} :
                /\ Apply(t, d, t.v)
                /\ Step("ms_" \o d, t.v)
    /\ UNCHANGED <<now, store, events, switchOn, histVars>>

\* onStateChange, acked scheduled = false: cancelScheduledStart(false)
AckedScheduledFalse ==
    /\ Keep
    /\ events # <<>>
    /\ registered
    /\ Room
    /\ LET e == Head(events) IN
          /\ e.id = "scheduled" /\ e.ack /\ e.sval = FALSE
          /\ events' = Tail(events)
          /\ tasks' = Spawn(tasks, CancelTask("ackedScheduledFalse", FALSE))
          /\ Step("as_false", 0)
    /\ UNCHANGED <<now, store, registered, timerVars, switchOn, histVars>>

\* onStateChange, acked startTime: read scheduled
AckedStartTime ==
    /\ Keep
    /\ events # <<>>
    /\ registered
    /\ Room
    /\ LET e == Head(events) IN
          /\ e.id = "startTime" /\ e.ack
          /\ events' = Tail(events)
          /\ tasks' = Spawn(tasks, Task("at_rd", "ackedStartTime", 0, store.scheduled,
                                        Empty, FALSE, Immediate))
          /\ Step("at_event", 0)
    /\ UNCHANGED <<now, store, registered, timerVars, switchOn, histVars>>

\* onStateChange, acked startTime, after the read of scheduled:
\* _recalculateScheduledTimer reads startTime
AckedStartTimeCheck ==
    /\ Keep
    /\ \E t \in Running :
          /\ t.pc = "at_rd"
          /\ IF t.rs = TRUE
             THEN /\ tasks' = Become(t, [t EXCEPT !.pc = "rc_rd", !.rt = store.startTime])
                  /\ UNCHANGED registered
                  /\ Step("at_recalculate", 0)
             ELSE /\ Finish(t)
                  /\ Step("at_ignore", 0)
    /\ UNCHANGED <<now, store, events, timerVars, switchOn, histVars>>

\* _recalculateScheduledTimer, after the read of startTime
Recalculate ==
    /\ Keep
    /\ \E t \in Running :
          /\ t.pc = "rc_rd"
          /\ \E d \in {RecalculateDecision(t.rt, now)} :
                /\ Apply(t, d, GetTime(t.rt))
                /\ Step("rc_" \o d, GetTime(t.rt))
    /\ UNCHANGED <<now, store, events, switchOn, histVars>>

----------------------------------------------------------------------------
(* scheduleStartAt, cancelScheduledStart, _executeScheduledStart *)

\* scheduleStartAt, after startTime was written: write scheduled = true
ScheduleWriteScheduled ==
    /\ Keep
    /\ \E t \in Running :
          /\ t.pc = "sc_w1"
          /\ store' = WriteScheduled(store, TRUE)
          /\ events' = Publish(events, Event("scheduled", TRUE, Empty, TRUE))
          /\ tasks' = Become(t, At(t, "sc_w2"))
          /\ Step("sc_scheduled", t.v)
    /\ UNCHANGED <<now, registered, timerVars, switchOn, histVars>>

\* scheduleStartAt, after scheduled was written: execute now or arm the timer
ScheduleDecide ==
    /\ Keep
    /\ \E t \in Running :
          /\ t.pc = "sc_w2"
          /\ \E d \in {ScheduleDecision(t.v, now)} :
                /\ Apply(t, d, t.v)
                /\ Step("sc_" \o d, t.v)
    /\ UNCHANGED <<now, store, events, switchOn, histVars>>

\* cancelScheduledStart, after the read of scheduled: return, or clear the
\* timer and write scheduled = false
CancelCheck ==
    /\ Keep
    /\ \E t \in Running :
          /\ t.pc = "ca_rd"
          /\ IF CancelSkips(t.rs)
             THEN /\ Finish(t)
                  /\ Step("ca_skip", 0)
                  /\ UNCHANGED <<store, events, timers, handle, cleared>>
             ELSE /\ timers' = ClearScheduledTimer(timers, handle)
                  /\ cleared' = cleared \cup {x.id : x \in {y \in timers : y.id = handle}}
                  /\ handle' = NoTimer
                  /\ store' = WriteScheduled(store, FALSE)
                  /\ events' = Publish(events, Event("scheduled", FALSE, Empty, TRUE))
                  /\ tasks' = Become(t, At(t, "ca_wr"))
                  /\ UNCHANGED registered
                  /\ Step("ca_clear", 0)
    /\ UNCHANGED <<now, nextTid, switchOn, histVars>>

\* cancelScheduledStart, after the write: send "Scheduled start cancelled" if
\* asked to
CancelNotify ==
    /\ Keep
    /\ \E t \in Running :
          /\ t.pc = "ca_wr"
          /\ IF t.notify
             THEN /\ tasks' = Become(t, At(t, "ca_nt"))
                  /\ UNCHANGED registered
                  /\ Step("ca_notify", 0)
             ELSE /\ Finish(t)
                  /\ Step("ca_silent", 0)
    /\ UNCHANGED <<now, store, events, timerVars, switchOn, histVars>>

\* cancelScheduledStart returns after the notification
CancelDone ==
    /\ Keep
    /\ \E t \in Running :
          /\ t.pc = "ca_nt"
          /\ Finish(t)
          /\ Step("ca_done", 0)
    /\ UNCHANGED <<now, store, events, timerVars, switchOn, histVars>>

\* _executeScheduledStart, after the read of scheduled: abort, or enter the try
\* block and send "Executing scheduled start"
ExecuteCheck ==
    /\ Keep
    /\ \E t \in Running :
          /\ t.pc = "ex_rd"
          /\ IF ExecuteAborts(t.rs)
             THEN /\ Finish(t)
                  /\ Step("ex_abort", 0)
             ELSE /\ tasks' = Become(t, At(t, "ex_nt"))
                  /\ UNCHANGED registered
                  /\ Step("ex_try", 0)
    /\ UNCHANGED <<now, store, events, timerVars, switchOn, histVars>>

\* _executeScheduledStart, after sendNotification: it threw (catch, finally), or
\* performScheduledStart is invoked and writes the switch (the write may fail)
ExecutePerform ==
    /\ Keep
    /\ \E t \in Running :
          /\ t.pc = "ex_nt"
          /\ \/ /\ store' = ScheduledAfterTry(store, "notify")
                /\ events' = IF store'.scheduled = FALSE
                             THEN Publish(events, Event("scheduled", FALSE, Empty, TRUE))
                             ELSE events
                /\ tasks' = Become(t, At(t, "ex_fin"))
                /\ Step("ex_notify_failed", 0)
                /\ UNCHANGED <<switchOn, performedBy>>
             \/ /\ \E ok \in BOOLEAN : switchOn' = (switchOn \/ ok)
                /\ performedBy' = IF t.origin = Immediate THEN performedBy
                                  ELSE [performedBy EXCEPT ![t.origin] = Min(@ + 1, 2)]
                /\ tasks' = Become(t, At(t, "ex_pf"))
                /\ Step("ex_perform", 0)
                /\ UNCHANGED <<store, events>>
    /\ UNCHANGED <<now, registered, timerVars, persisted>>

\* _executeScheduledStart, after performScheduledStart returned or threw:
\* finally { scheduled = false }
ExecuteFinally ==
    /\ Keep
    /\ \E t \in Running :
          /\ t.pc = "ex_pf"
          /\ \E outcome \in {"ok", "perform"} :
                /\ store' = ScheduledAfterTry(store, outcome)
                /\ events' = IF store'.scheduled = FALSE
                             THEN Publish(events, Event("scheduled", FALSE, Empty, TRUE))
                             ELSE events
                /\ tasks' = Become(t, At(t, "ex_fin"))
                /\ Step("ex_finally_" \o outcome, 0)
    /\ UNCHANGED <<now, registered, timerVars, switchOn, histVars>>

\* _executeScheduledStart returns
ExecuteDone ==
    /\ Keep
    /\ \E t \in Running :
          /\ t.pc = "ex_fin"
          /\ Finish(t)
          /\ Step("ex_done", 0)
    /\ UNCHANGED <<now, store, events, timerVars, switchOn, histVars>>

----------------------------------------------------------------------------
(* Process start: init() -> initializeStates() -> restoreScheduledOperations() *)

InitTask == Task("in_0", "init", 0, FALSE, Empty, FALSE, Immediate)

\* the adapter process is stopped and started again: timers, handlers and
\* undelivered events of the old process are gone, the store is kept
Restart ==
    /\ Use
    /\ registered
    /\ tasks' = SetToBag({InitTask})
    /\ registered' = FALSE
    /\ timers' = {}
    /\ handle' = NoTimer
    /\ events' = <<>>
    /\ persisted' = store
    /\ Step("Restart", 0)
    /\ UNCHANGED <<now, store, nextTid, cleared, switchOn, performedBy>>

\* initializeStates: running = false
InitRunning ==
    /\ Keep
    /\ \E t \in Running :
          /\ t.pc = "in_0"
          /\ store' = [store EXCEPT !.running = FALSE]
          /\ tasks' = Become(t, At(t, "in_1"))
          /\ Step("in_running", 0)
    /\ UNCHANGED <<now, events, registered, timerVars, switchOn, histVars>>

\* initializeStates: scheduled = false
InitScheduled ==
    /\ Keep
    /\ \E t \in Running :
          /\ t.pc = "in_1"
          /\ store' = WriteScheduled(store, FALSE)
          /\ events' = Publish(events, Event("scheduled", FALSE, Empty, TRUE))
          /\ tasks' = Become(t, At(t, "in_2"))
          /\ Step("in_scheduled", 0)
    /\ UNCHANGED <<now, registered, timerVars, switchOn, histVars>>

\* initializeStates: startTime = ""
InitStartTime ==
    /\ Keep
    /\ \E t \in Running :
          /\ t.pc = "in_2"
          /\ store' = WriteStartTime(store, Empty)
          /\ events' = Publish(events, Event("startTime", FALSE, Empty, TRUE))
          /\ tasks' = Become(t, At(t, "in_3"))
          /\ Step("in_startTime", 0)
    /\ UNCHANGED <<now, registered, timerVars, switchOn, histVars>>

\* restoreScheduledOperations: read scheduled
RestoreReadScheduled ==
    /\ Keep
    /\ \E t \in Running :
          /\ t.pc = "in_3"
          /\ tasks' = Become(t, [t EXCEPT !.pc = "rs_1", !.rs = store.scheduled])
          /\ Step("rs_scheduled", 0)
    /\ UNCHANGED <<now, store, events, registered, timerVars, switchOn, histVars>>

\* restoreScheduledOperations: read startTime
RestoreReadStartTime ==
    /\ Keep
    /\ \E t \in Running :
          /\ t.pc = "rs_1"
          /\ tasks' = Become(t, [t EXCEPT !.pc = "rs_2", !.rt = store.startTime])
          /\ Step("rs_startTime", 0)
    /\ UNCHANGED <<now, store, events, registered, timerVars, switchOn, histVars>>

\* restoreScheduledOperations, after both reads
Restore ==
    /\ Keep
    /\ \E t \in Running :
          /\ t.pc = "rs_2"
          /\ \E d \in {RestoreDecision(t.rs, t.rt, now)} :
                /\ Apply(t, d, GetTime(t.rt))
                /\ Step("rs_" \o d, GetTime(t.rt))
    /\ UNCHANGED <<now, store, events, switchOn, histVars>>

----------------------------------------------------------------------------
(* The washing machine's planning (planWashingProgram): the call, the block *)
(* a search returned and the planned.* states.  An average price is the     *)
(* fraction n / d.                                                          *)

NoCall == [feed |-> [configured |-> FALSE, today |-> FALSE, prices |-> <<>>],
           hours |-> 0, notBefore |-> 0, duration |-> 0, dryerNeeded |-> FALSE,
           dryerDuration |-> 0, transferBuffer |-> 0]

NoBlock == [ok |-> FALSE, startIndex |-> 0, startTime |-> 0, endTime |-> 0, total |-> 0]

NoResult == [variant |-> "none", withDryer |-> FALSE, startTime |-> 0, endTime |-> 0,
             washEnd |-> 0, dryStart |-> 0,
             avgPriceWash |-> [n |-> 0, d |-> 1], avgPriceDryer |-> [n |-> 0, d |-> 1]]

NoPlan == [op |-> "none", call |-> NoCall, block |-> NoBlock, planned |-> NoResult]

----------------------------------------------------------------------------

Init ==
    /\ now = 0
    /\ store = [running |-> FALSE, scheduled |-> FALSE, startTime |-> Empty]
    /\ events = <<>>
    /\ registered = FALSE
    /\ timers = {}
    /\ handle = NoTimer
    /\ nextTid = 1
    /\ tasks = SetToBag({InitTask})
    /\ switchOn = FALSE
    /\ cleared = {}
    /\ performedBy = [i \in 1..MaxTimers |-> 0]
    /\ persisted = store
    /\ budget = MaxOps
    /\ last = [op |-> "Init", v |-> 0]
    /\ power = 0
    /\ appTimers = {}
    /\ rawTimeouts = {}
    /\ dev = DevInit
    /\ obs = ObsInit
    /\ plan = NoPlan
    /\ reads = <<>>

Next ==
    \/ Tick
    \/ OperatorWriteStartTime
    \/ OperatorWriteScheduled
    \/ ScheduleStartAt
    \/ CancelScheduledStart
    \/ Fire
    \/ DropEvent
    \/ ManualStartTime
    \/ ManualStartTimeRead
    \/ ManualStartTimeDecide
    \/ ManualScheduled
    \/ ManualScheduledCheck
    \/ ManualScheduledRejected
    \/ ManualScheduledDecide
    \/ AckedScheduledFalse
    \/ AckedStartTime
    \/ AckedStartTimeCheck
    \/ Recalculate
    \/ ScheduleWriteScheduled
    \/ ScheduleDecide
    \/ CancelCheck
    \/ CancelNotify
    \/ CancelDone
    \/ ExecuteCheck
    \/ ExecutePerform
    \/ ExecuteFinally
    \/ ExecuteDone
    \/ Restart
    \/ InitRunning
    \/ InitScheduled
    \/ InitStartTime
    \/ RestoreReadScheduled
    \/ RestoreReadStartTime
    \/ Restore

Spec == Init /\ [][Next]_vars

TypeOK ==
    /\ now \in 0..MaxTime
    /\ store.scheduled \in BOOLEAN
    /\ handle \in 0..MaxTimers
    /\ nextTid \in 1..(MaxTimers + 1)
    /\ BagCardinality(tasks) <= MaxTasks
    /\ budget \in 0..MaxOps

----------------------------------------------------------------------------
(* The price feed and the search of the cheapest block (main.js).  A price  *)
(* entry is [startsAt, total]; a feed is what tibberlink offers.            *)

\* the adapter's configuration and the PricesToday / PricesTomorrow states
Feed(prices) == [configured |-> TRUE, today |-> TRUE, prices |-> prices]
NotConfigured == [configured |-> FALSE, today |-> FALSE, prices |-> <<>>]
TodayMissing == [configured |-> TRUE, today |-> FALSE, prices |-> <<>>]

\* entries of consecutive hours from the instant s on
Hourly(s, totals) ==
    [i \in 1..Len(totals) |-> [startsAt |-> s + (i - 1) * HourLen, total |-> totals[i]]]

Thrown == [ok |-> FALSE, startIndex |-> 0, startTime |-> 0, endTime |-> 0, total |-> 0]

\* getTibberPrices: throws, or returns today's and tomorrow's entries
GetTibberPrices(feed) ==
    IF ~feed.configured \/ ~feed.today
    THEN [ok |-> FALSE, prices |-> <<>>]
    ELSE [ok |-> TRUE, prices |-> feed.prices]

\* timeDiff === 1
IsConsecutiveHour(prev, curr) == curr.startsAt - prev.startsAt = HourLen

\* validBlock of the inner loop, for the block of the entries i .. i + hours - 1
ValidBlock(prices, i, hours) ==
    \A j \in 1..(hours - 1) : IsConsecutiveHour(prices[i + j - 1], prices[i + j])

\* totalPrice of the inner loop
RECURSIVE TotalPrice(_, _, _)
TotalPrice(prices, i, hours) ==
    IF hours = 0 THEN 0
    ELSE prices[i].total + TotalPrice(prices, i + 1, hours - 1)

\* prices.findIndex(entry => new Date(entry.startsAt) > currentTime), 0 for -1
FutureStartIndex(prices, nw) ==
    IF \E i \in 1..Len(prices) : prices[i].startsAt > nw
    THEN CHOOSE i \in 1..Len(prices) :
            /\ prices[i].startsAt > nw
            /\ \A k \in 1..(i - 1) : ~(prices[k].startsAt > nw)
    ELSE 0

\* if (avgPrice < lowestAvgPrice), both averages over the same number of hours
Cheaper(total, lowest) == total < lowest

\* the outer loop from i on: best is the start of the best block so far (0:
\* none), lowest its total
RECURSIVE CheapestScan(_, _, _, _, _)
CheapestScan(prices, hours, i, best, lowest) ==
    IF i > Len(prices) - hours + 1 THEN best
    ELSE IF ValidBlock(prices, i, hours)
            /\ (best = 0 \/ Cheaper(TotalPrice(prices, i, hours), lowest))
    THEN CheapestScan(prices, hours, i + 1, i, TotalPrice(prices, i, hours))
    ELSE CheapestScan(prices, hours, i + 1, best, lowest)

\* the block the search returns: endTime is the start of its last entry,
\* avgPrice is total / hours
Block(prices, i, hours) ==
    [ok |-> TRUE, startIndex |-> i, startTime |-> prices[i].startsAt,
     endTime |-> prices[i + hours - 1].startsAt,
     total |-> TotalPrice(prices, i, hours)]

\* findCheapestConsecutiveHours(prices, requiredHours) at the time nw
FindCheapestConsecutiveHours(prices, hours, nw) ==
    IF Len(prices) < hours THEN Thrown
    ELSE LET f == FutureStartIndex(prices, nw) IN
         IF f = 0 \/ (f - 1) + hours > Len(prices) THEN Thrown
         ELSE LET b == CheapestScan(prices, hours, f, 0, 0) IN
              IF b = 0 THEN Thrown ELSE Block(prices, b, hours)

\* scheduleOptimalStart, the two lookups of its try block
OptimalBlock(feed, hours, nw) ==
    LET g == GetTibberPrices(feed) IN
    IF g.ok THEN FindCheapestConsecutiveHours(g.prices, hours, nw) ELSE Thrown

----------------------------------------------------------------------------
(* The dishwasher (lib/DishwasherDevice.js): start, manual-start and end    *)
(* detection from power samples, and its own scheduling.  A handler or a    *)
(* timer callback runs in one step.  Notifications and the dry reminder     *)
(* (scheduleDryReminder, clearDryReminder) are left out.                    *)

baseVars == <<events, registered, timers, handle, nextTid, tasks, cleared,
              performedBy, persisted>>

\* adapter.setApplianceTimer(key, callback, delay): replaces the timer of the key
SetApplianceTimer(reg, key, nw, delay) ==
    {x \in reg : x.key # key} \cup {[key |-> key, due |-> nw + delay]}

\* adapter.clearApplianceTimer(key)
ClearApplianceTimer(reg, key) == {x \in reg : x.key # key}

\* clearEndTimers, the registry
ClearEndTimersReg(reg, d) ==
    LET r1 == IF d.endTimer THEN ClearApplianceTimer(reg, "end") ELSE reg
    IN  IF d.postTimer THEN ClearApplianceTimer(r1, "post") ELSE r1

\* variant: clearEndTimers leaves the handles set
ClearEndTimersDevKeeps(d) == d

\* clearEndTimers, the handles
ClearEndTimersDev(d) == [d EXCEPT !.endTimer = FALSE, !.postTimer = FALSE]

\* handlePowerChange: if (power > this.EPS) { lastAboveZeroTs = now; clearEndTimers() }
ActivityDev(p, nw, d) ==
    IF p > EPS THEN [ClearEndTimersDev(d) EXCEPT !.lastAboveZeroTs = nw] ELSE d

\* variant: a sample above EPS leaves the end timers in the registry
ActivityRegKeeps(p, reg, d) == reg

ActivityReg(p, reg, d) == IF p > EPS THEN ClearEndTimersReg(reg, d) ELSE reg

\* variant: no minimum runtime
RunNeverTooShort(val, nw) == FALSE

\* handleEndDetection: runTime < MIN_RUNTIME_BEFORE_END, with
\* runTime = now - (startTime ? new Date(startTime).getTime() : now);
\* an unparseable startTime gives NaN, and NaN < x is false
RunTooShort(val, nw) ==
    IF IsEmpty(val) THEN 0 < MIN_RUNTIME
    ELSE IF IsNaNDate(val) THEN FALSE
    ELSE nw - GetTime(val) < MIN_RUNTIME

\* handleEndDetection: does this sample arm the end-grace timer
ArmsEndTimer(p, nw, st, d) ==
    ~RunTooShort(st.startTime, nw) /\ p <= EPS /\ ~d.endTimer

HandleEndDetectionDev(p, nw, st, d) ==
    IF ArmsEndTimer(p, nw, st, d) THEN [d EXCEPT !.endTimer = TRUE] ELSE d

HandleEndDetectionReg(p, nw, st, d, reg) ==
    IF ArmsEndTimer(p, nw, st, d)
    THEN SetApplianceTimer(reg, "end", nw, ZERO_GRACE)
    ELSE reg

\* variant: no cooldown
InCooldownNever(nw, d) == FALSE

\* handleStartDetection: if (now - this.lastFinishTs < this.COOLDOWN_AFTER_MS) return
InCooldown(nw, d) == nw - d.lastFinishTs < COOLDOWN

\* handleStartDetection: which timer a sample above EPS arms
StartDetectionArms(isScheduled, d) ==
    IF ~d.detectionTimer /\ ~isScheduled /\ ~d.automaticStartInProgress
    THEN "detection"
    ELSE IF ~d.startTimer THEN "start" ELSE "none"

HandleStartDetectionDev(p, nw, isScheduled, d) ==
    IF InCooldown(nw, d) THEN d
    ELSE IF p > EPS
    THEN LET k == StartDetectionArms(isScheduled, d) IN
         IF k = "detection" THEN [d EXCEPT !.detectionTimer = TRUE]
         ELSE IF k = "start" THEN [d EXCEPT !.startTimer = TRUE]
         ELSE d
    ELSE [d EXCEPT !.detectionTimer = FALSE, !.startTimer = FALSE]

\* variant: a sample <= EPS leaves the detection and start timers pending
HandleStartDetectionRegKeeps(p, nw, isScheduled, d, reg) ==
    IF InCooldown(nw, d) THEN reg
    ELSE IF p > EPS
    THEN LET k == StartDetectionArms(isScheduled, d) IN
         IF k = "none" THEN reg ELSE SetApplianceTimer(reg, k, nw, DETECT_TIME)
    ELSE reg

HandleStartDetectionReg(p, nw, isScheduled, d, reg) ==
    IF InCooldown(nw, d) THEN reg
    ELSE IF p > EPS
    THEN LET k == StartDetectionArms(isScheduled, d) IN
         IF k = "none" THEN reg ELSE SetApplianceTimer(reg, k, nw, DETECT_TIME)
    ELSE LET r1 == IF d.detectionTimer
                   THEN ClearApplianceTimer(reg, "detection") ELSE reg
         IN  IF d.startTimer THEN ClearApplianceTimer(r1, "start") ELSE r1

\* variant: the detection callback does not look at scheduled or at
\* automaticStartInProgress
ManualStartConfirmedUnguarded(p, running, scheduled, auto) ==
    p > EPS /\ ~running

\* the detection callback: handleManualStart is called
ManualStartConfirmed(p, running, scheduled, auto) ==
    p > EPS /\ ~running /\ ~scheduled /\ ~auto

\* the start callback: startDevice is called
StartConfirmed(p, running) == p > EPS /\ ~running

\* the end-grace callback: the post-confirm timer is armed
EndConfirmed(p, nw, d) == p <= EPS /\ nw - d.lastAboveZeroTs >= ZERO_GRACE

\* the post-confirm callback: finishDevice is called
FinishConfirmed(p) == p <= EPS

\* setTimeout(callback, delay): a delay that is not a number runs the callback
\* as soon as possible
TimeoutDelay(val, nw) == IF IsNaNDate(val) THEN 0 ELSE GetTime(val) - nw

\* handleManualStartTimeChange: if (delay <= 0), false for NaN
StartTimeIsPast(val, nw) == ~IsNaNDate(val) /\ GetTime(val) - nw <= 0

\* a timer of the key is due
Due(set, key) == \E x \in set : x.key = key /\ x.due <= now

AllTimers == appTimers \cup rawTimeouts

\* DishwasherDevice.cancelScheduledStart, given the store it reads
DwCancelStore(st) ==
    IF st.scheduled THEN [st EXCEPT !.scheduled = FALSE, !.startTime = Empty] ELSE st

DwCancelDev(st, d) ==
    IF st.scheduled THEN [d EXCEPT !.scheduledStartTimer = FALSE] ELSE d

DwCancelReg(st, d, reg) ==
    IF st.scheduled /\ d.scheduledStartTimer
    THEN ClearApplianceTimer(reg, "scheduled")
    ELSE reg

\* executeScheduledStart, given the store and the device it starts from
DwExecuteScheduledStart(st, d) ==
    IF ~st.scheduled
    THEN /\ store' = st
         /\ dev' = d
         /\ UNCHANGED <<switchOn, rawTimeouts>>
    ELSE /\ store' = [st EXCEPT !.scheduled = FALSE, !.startTime = Empty]
         /\ dev' = [d EXCEPT !.automaticStartInProgress = TRUE]
         /\ switchOn' = TRUE
         /\ rawTimeouts' = rawTimeouts \cup
                              {[key |-> "autoflag", due |-> now + AutoFlagTime]}

DwUse == budget > 0 /\ budget' = budget - 1 /\ UNCHANGED <<baseVars, plan, reads>>
DwKeep == budget' = budget /\ UNCHANGED <<baseVars, plan, reads>>

\* time passes; a timer that is due fires before the clock moves on
DwTick ==
    /\ DwKeep
    /\ now < BootTime + DwMaxTime
    /\ \A x \in AllTimers : x.due > now
    /\ now' = now + 1
    /\ Step("DwTick", 0)
    /\ UNCHANGED <<store, switchOn, dwVars>>

\* what handlePowerChange(p) does with the sample, for the record of the step
SampleStep(p) ==
    IF store.running
    THEN (IF p > EPS
          THEN (IF dev.endTimer \/ dev.postTimer THEN "sample_reset_end" ELSE "sample_high")
          ELSE (IF ArmsEndTimer(p, now, store, dev) THEN "sample_arm_end" ELSE "sample_low"))
    ELSE IF InCooldown(now, dev) THEN "sample_cooldown"
    ELSE IF p > EPS
    THEN (IF StartDetectionArms(store.scheduled, dev) = "none"
          THEN "sample_high"
          ELSE "sample_arm_" \o StartDetectionArms(store.scheduled, dev))
    ELSE (IF dev.detectionTimer \/ dev.startTimer THEN "sample_debounce" ELSE "sample_low")

\* a power sample arrives: onStateChange -> handlePowerChange
PowerSample ==
    /\ DwKeep
    /\ \E p \in 0..MaxPower :
          LET d1 == ActivityDev(p, now, dev)
              r1 == ActivityReg(p, appTimers, dev)
          IN  /\ power' = p
              /\ IF store.running
                 THEN /\ dev' = HandleEndDetectionDev(p, now, store, d1)
                      /\ appTimers' = HandleEndDetectionReg(p, now, store, d1, r1)
                 ELSE /\ dev' = HandleStartDetectionDev(p, now, store.scheduled, d1)
                      /\ appTimers' =
                            HandleStartDetectionReg(p, now, store.scheduled, d1, r1)
              /\ obs' = IF p <= EPS
                        THEN [obs EXCEPT !.manual = 0, !.lowTs = now]
                        ELSE obs
              /\ Step(SampleStep(p), p)
    /\ UNCHANGED <<now, store, switchOn, rawTimeouts>>

\* the detection timer fires; handleManualStart
DetectionTimerFires ==
    /\ DwKeep
    /\ Due(appTimers, "detection")
    /\ appTimers' = ClearApplianceTimer(appTimers, "detection")
    /\ dev' = [dev EXCEPT !.detectionTimer = FALSE]
    /\ IF ManualStartConfirmed(power, store.running, store.scheduled,
                               dev.automaticStartInProgress)
       THEN /\ switchOn' = FALSE
            /\ obs' = [obs EXCEPT !.manual = Min(2, @ + 1)]
            /\ rawTimeouts' = rawTimeouts \cup
                                 {[key |-> "replan", due |-> now + ReplanDelay]}
            /\ Step("handleManualStart", 0)
       ELSE /\ UNCHANGED <<switchOn, obs, rawTimeouts>>
            /\ Step("detection_none", 0)
    /\ UNCHANGED <<now, store, power>>

\* the start timer fires; startDevice
StartTimerFires ==
    /\ DwKeep
    /\ Due(appTimers, "start")
    /\ IF StartConfirmed(power, store.running)
       THEN LET st == [store EXCEPT !.running = TRUE, !.startTime = ToISOString(now)]
                d1 == [dev EXCEPT !.startTimer = FALSE, !.lastAboveZeroTs = now]
            IN  /\ store' = DwCancelStore(st)
                /\ dev' = [DwCancelDev(st, d1) EXCEPT !.automaticStartInProgress = FALSE]
                /\ appTimers' = DwCancelReg(st, d1, ClearApplianceTimer(appTimers, "start"))
                /\ obs' = [obs EXCEPT !.runStart = now, !.edited = FALSE]
                /\ Step("startDevice", 0)
       ELSE /\ dev' = [dev EXCEPT !.startTimer = FALSE]
            /\ appTimers' = ClearApplianceTimer(appTimers, "start")
            /\ UNCHANGED <<store, obs>>
            /\ Step("start_none", 0)
    /\ UNCHANGED <<now, switchOn, power, rawTimeouts>>

\* the end-grace timer fires; it may arm the post-confirm timer
EndTimerFires ==
    /\ DwKeep
    /\ Due(appTimers, "end")
    /\ IF EndConfirmed(power, now, dev)
       THEN /\ dev' = [dev EXCEPT !.endTimer = FALSE, !.postTimer = TRUE]
            /\ appTimers' = SetApplianceTimer(ClearApplianceTimer(appTimers, "end"),
                                              "post", now, POST_CONFIRM)
            /\ Step("end_post", 0)
       ELSE /\ dev' = [dev EXCEPT !.endTimer = FALSE]
            /\ appTimers' = ClearApplianceTimer(appTimers, "end")
            /\ Step("end_none", 0)
    /\ UNCHANGED <<now, store, switchOn, power, rawTimeouts, obs>>

\* the post-confirm timer fires; finishDevice
PostTimerFires ==
    /\ DwKeep
    /\ Due(appTimers, "post")
    /\ appTimers' = ClearApplianceTimer(appTimers, "post")
    /\ IF FinishConfirmed(power)
       THEN /\ store' = [store EXCEPT !.running = FALSE]
            /\ dev' = [dev EXCEPT !.postTimer = FALSE, !.lastFinishTs = now]
            /\ Step("finishDevice", 0)
       ELSE /\ dev' = [dev EXCEPT !.postTimer = FALSE]
            /\ UNCHANGED store
            /\ Step("post_none", 0)
    /\ UNCHANGED <<now, switchOn, power, rawTimeouts, obs>>

\* the feeds a replan may meet: none, no entry, too few entries, entries whose
\* hours have begun, and two with a block ahead
ReplanFeeds(nw) ==
    {NotConfigured, TodayMissing, Feed(<<>>), Feed(Hourly(nw + 1, <<1>>)),
     Feed(Hourly(nw - 1, <<1, 1>>)),
     Feed(Hourly(nw - 1, <<1, 1, 1>>)), Feed(Hourly(nw, <<1, 2, 2>>))}

\* variant: scheduled is set before the prices are looked up
ScheduleOptimalStoreEager(st, b) ==
    IF b.ok
    THEN [st EXCEPT !.startTime = ToISOString(b.startTime), !.scheduled = TRUE]
    ELSE [st EXCEPT !.scheduled = TRUE]

\* scheduleOptimalStart: the states written, given the block found
ScheduleOptimalStore(st, b) ==
    IF b.ok
    THEN [st EXCEPT !.startTime = ToISOString(b.startTime), !.scheduled = TRUE]
    ELSE st

\* 2 s after a manual start: scheduleOptimalStart.  A lookup that throws ends
\* in the catch block (log and notification).  The block found starts after
\* now, so the delay is positive and the timer is set.
ReplanFires ==
    /\ DwKeep
    /\ Due(rawTimeouts, "replan")
    /\ \E x \in rawTimeouts :
          /\ x.key = "replan" /\ x.due <= now
          /\ rawTimeouts' = rawTimeouts \ {x}
    /\ \E feed \in ReplanFeeds(now) :
          LET b == OptimalBlock(feed, REQUIRED_HOURS, now) IN
          /\ store' = ScheduleOptimalStore(store, b)
          /\ IF b.ok
             THEN /\ appTimers' = SetApplianceTimer(appTimers, "scheduled", now,
                                                    b.startTime - now)
                  /\ dev' = [dev EXCEPT !.scheduledStartTimer = TRUE]
                  /\ Step("scheduleOptimalStart", b.startTime)
             ELSE /\ Step("tibber_failed", 0)
                  /\ UNCHANGED <<dev, appTimers>>
    /\ UNCHANGED <<now, switchOn, power, obs>>

\* the scheduled-start timer fires; executeScheduledStart
ScheduledTimerFires ==
    /\ DwKeep
    /\ Due(appTimers, "scheduled")
    /\ appTimers' = ClearApplianceTimer(appTimers, "scheduled")
    /\ DwExecuteScheduledStart(store, dev)
    /\ Step(IF store.scheduled THEN "executeScheduledStart" ELSE "execute_aborted", 0)
    /\ UNCHANGED <<now, power, obs>>

\* 30 s after a scheduled start: automaticStartInProgress = false
AutoFlagFires ==
    /\ DwKeep
    /\ \E x \in rawTimeouts :
          /\ x.key = "autoflag" /\ x.due <= now
          /\ rawTimeouts' = rawTimeouts \ {x}
    /\ dev' = [dev EXCEPT !.automaticStartInProgress = FALSE]
    /\ Step("autoflag", 0)
    /\ UNCHANGED <<now, store, switchOn, power, appTimers, obs>>

\* the operator writes startTime (ack=false); onStateChange ->
\* handleManualStartTimeChange
DwOperatorWriteStartTime ==
    /\ DwUse
    /\ \E val \in {Bad, Raw(0), Raw(now + 1)} :
          LET st == WriteStartTime(store, val) IN
          /\ obs' = [obs EXCEPT !.edited = TRUE]
          /\ IF ~st.scheduled
             THEN /\ store' = st
                  /\ Step("startTime_ignored", 0)
                  /\ UNCHANGED <<dev, appTimers, switchOn, rawTimeouts>>
             ELSE IF StartTimeIsPast(val, now)
             THEN /\ DwExecuteScheduledStart(st, dev)
                  /\ Step("startTime_past", 0)
                  /\ UNCHANGED appTimers
             ELSE /\ store' = st
                  /\ appTimers' = SetApplianceTimer(appTimers, "scheduled", now,
                                                    TimeoutDelay(val, now))
                  /\ dev' = [dev EXCEPT !.scheduledStartTimer = TRUE]
                  /\ Step(IF IsNaNDate(val) THEN "startTime_invalid" ELSE "startTime_rearm",
                          0)
                  /\ UNCHANGED <<switchOn, rawTimeouts>>
    /\ UNCHANGED <<now, power>>

\* the operator writes scheduled (ack=false); onStateChange reacts to false
\* only, with cancelScheduledStart, which reads the value just written
DwOperatorWriteScheduled ==
    /\ DwUse
    /\ \E b \in BOOLEAN :
          LET st == WriteScheduled(store, b) IN
          /\ store' = IF b THEN st ELSE DwCancelStore(st)
          /\ dev' = IF b THEN dev ELSE DwCancelDev(st, dev)
          /\ appTimers' = IF b THEN appTimers ELSE DwCancelReg(st, dev, appTimers)
          /\ Step("DwOperatorWriteScheduled", 0)
    /\ UNCHANGED <<now, switchOn, power, rawTimeouts, obs>>

DwInit ==
    /\ now = BootTime
    /\ store = [running |-> FALSE, scheduled |-> FALSE, startTime |-> Empty]
    /\ events = <<>>
    /\ registered = TRUE
    /\ timers = {}
    /\ handle = NoTimer
    /\ nextTid = 1
    /\ tasks = EmptyBag
    /\ switchOn = FALSE
    /\ cleared = {}
    /\ performedBy = [i \in 1..MaxTimers |-> 0]
    /\ persisted = store
    /\ budget = MaxOps
    /\ last = [op |-> "Init", v |-> 0]
    /\ power = 0
    /\ appTimers = {}
    /\ rawTimeouts = {}
    /\ dev = DevInit
    /\ obs = [ObsInit EXCEPT !.lowTs = BootTime]
    /\ plan = NoPlan
    /\ reads = <<>>

DwNext ==
    \/ DwTick
    \/ PowerSample
    \/ DetectionTimerFires
    \/ StartTimerFires
    \/ EndTimerFires
    \/ PostTimerFires
    \/ ReplanFires
    \/ ScheduledTimerFires
    \/ AutoFlagFires
    \/ DwOperatorWriteStartTime
    \/ DwOperatorWriteScheduled

DwSpec == DwInit /\ [][DwNext]_vars

----------------------------------------------------------------------------
(* The dishwasher's life cycle: the process starts on the states an earlier *)
(* process left behind (initializeStates, restoreScheduledOperations), runs *)
(* as above, and is stopped.                                                *)

\* what an earlier process can have left in scheduled and startTime: nothing,
\* an operator's text, a start that is overdue, near, or far away
PersistedStartTimes ==
    {Empty, Bad, ToISOString(BootTime - 1), ToISOString(BootTime + 1),
     Raw(BootTime + DwHorizon + 1)}

PersistedStores ==
    [running : BOOLEAN, scheduled : BOOLEAN, startTime : PersistedStartTimes]

\* restoreScheduledOperations: delay <= 0 and delay > 24 h are both false for
\* the NaN of an unparseable startTime, which leaves the last branch
DwRestoreDecision(st, nw) ==
    IF st.scheduled /\ ~IsEmpty(st.startTime)
    THEN IF IsNaNDate(st.startTime) THEN "arm"
         ELSE IF GetTime(st.startTime) - nw <= 0 THEN "execute"
         ELSE IF GetTime(st.startTime) - nw > DwHorizon THEN "cancel"
         ELSE "arm"
    ELSE "none"

\* init() of the device after the process started: the states exist, so
\* initializeStates writes nothing; restoreScheduledOperations
DwRestore ==
    /\ ~registered
    /\ registered' = TRUE
    /\ budget' = budget
    /\ UNCHANGED <<events, timers, handle, nextTid, tasks, cleared, performedBy,
                   persisted, plan, reads>>
    /\ LET k  == DwRestoreDecision(store, now)
           d0 == IF store.running THEN [dev EXCEPT !.lastAboveZeroTs = now] ELSE dev
       IN  /\ Step("restore_" \o k, 0)
           /\ IF k = "execute"
              THEN /\ DwExecuteScheduledStart(store, d0)
                   /\ UNCHANGED appTimers
              ELSE IF k = "cancel"
              THEN /\ store' = DwCancelStore(store)
                   /\ dev' = DwCancelDev(store, d0)
                   /\ appTimers' = DwCancelReg(store, d0, appTimers)
                   /\ UNCHANGED <<switchOn, rawTimeouts>>
              ELSE IF k = "arm"
              THEN /\ appTimers' = SetApplianceTimer(appTimers, "scheduled", now,
                                         TimeoutDelay(store.startTime, now))
                   /\ dev' = [d0 EXCEPT !.scheduledStartTimer = TRUE]
                   /\ UNCHANGED <<store, switchOn, rawTimeouts>>
              ELSE /\ dev' = d0
                   /\ UNCHANGED <<store, appTimers, switchOn, rawTimeouts>>
    /\ UNCHANGED <<now, power, obs>>

\* executeScheduledStart when setForeignStateAsync(switchStateId, true) rejects:
\* the flag is set, the rest of the function is skipped
DwExecuteSwitchFails(st, d) ==
    /\ store' = st
    /\ dev' = [d EXCEPT !.automaticStartInProgress = TRUE]
    /\ UNCHANGED <<switchOn, rawTimeouts>>

\* the scheduled-start timer fires and the switch cannot be written
ScheduledTimerSwitchFails ==
    /\ DwUse
    /\ Due(appTimers, "scheduled")
    /\ store.scheduled
    /\ appTimers' = ClearApplianceTimer(appTimers, "scheduled")
    /\ DwExecuteSwitchFails(store, dev)
    /\ Step("execute_switch_failed", 0)
    /\ UNCHANGED <<now, power, obs>>

\* a power sample arrives and getStateValue("running"), the first read of
\* handlePowerChange, rejects: nothing is caught on the way out through
\* onStateChange of the device and of the adapter
PowerSampleReadFails ==
    /\ DwUse
    /\ registered /\ ~obs.stopped
    /\ \E p \in 0..MaxPower :
          /\ power' = p
          /\ Step("sample_rejected", p)
    /\ UNCHANGED <<now, store, switchOn, appTimers, rawTimeouts, dev, obs>>

\* the handle a timer callback resets in its first statement
ClearHandle(d, key) ==
    IF key = "detection" THEN [d EXCEPT !.detectionTimer = FALSE]
    ELSE IF key = "start" THEN [d EXCEPT !.startTimer = FALSE]
    ELSE IF key = "end" THEN [d EXCEPT !.endTimer = FALSE]
    ELSE [d EXCEPT !.postTimer = FALSE]

\* a detection, start, end or post timer fires and getCurrentPower, the first
\* read of its callback, rejects: nothing is caught in the callback or in
\* setApplianceTimer's wrapper
TimerCallbackReadFails ==
    /\ DwUse
    /\ \E key \in {"detection", "start", "end", "post"} :
          /\ Due(appTimers, key)
          /\ appTimers' = ClearApplianceTimer(appTimers, key)
          /\ dev' = ClearHandle(dev, key)
    /\ Step("callback_rejected", 0)
    /\ UNCHANGED <<now, store, switchOn, power, rawTimeouts, obs>>

\* onUnload: every timer of adapter.timers is cleared, then device.stop()
\* clears the appliance's keys again and resets the handles; the timeouts that
\* handleManualStart and executeScheduledStart started with setTimeout are in
\* no registry
DwStop ==
    /\ DwUse
    /\ registered /\ ~obs.stopped
    /\ appTimers' = {}
    /\ dev' = [dev EXCEPT !.detectionTimer = FALSE, !.startTimer = FALSE,
                          !.endTimer = FALSE, !.postTimer = FALSE,
                          !.scheduledStartTimer = FALSE]
    /\ obs' = [obs EXCEPT !.stopped = TRUE]
    /\ Step("stop", 0)
    /\ UNCHANGED <<now, store, switchOn, power, rawTimeouts>>

\* the clock of a life cycle
LifeTick == now < BootTime + LifeMaxTime /\ DwTick

\* the adapter delivers state changes to a device that init() has registered,
\* until it is unloaded
LifePowerSample == registered /\ ~obs.stopped /\ PowerSample

LifeWriteStartTime == registered /\ ~obs.stopped /\ DwOperatorWriteStartTime

LifeWriteScheduled == registered /\ ~obs.stopped /\ DwOperatorWriteScheduled

DwLifeInit ==
    /\ now = BootTime
    /\ store \in PersistedStores
    /\ events = <<>>
    /\ registered = FALSE
    /\ timers = {}
    /\ handle = NoTimer
    /\ nextTid = 1
    /\ tasks = EmptyBag
    /\ switchOn = FALSE
    /\ cleared = {}
    /\ performedBy = [i \in 1..MaxTimers |-> 0]
    /\ persisted = store
    /\ budget = LifeOps
    /\ last = [op |-> "Init", v |-> 0]
    /\ power = 0
    /\ appTimers = {}
    /\ rawTimeouts = {}
    /\ dev = DevInit
    /\ obs = [ObsInit EXCEPT !.lowTs = BootTime]
    /\ plan = NoPlan
    /\ reads = <<>>

DwLifeNext ==
    \/ DwRestore
    \/ LifeTick
    \/ LifePowerSample
    \/ DetectionTimerFires
    \/ StartTimerFires
    \/ EndTimerFires
    \/ PostTimerFires
    \/ ReplanFires
    \/ ScheduledTimerFires
    \/ AutoFlagFires
    \/ LifeWriteStartTime
    \/ LifeWriteScheduled
    \/ ScheduledTimerSwitchFails
    \/ PowerSampleReadFails
    \/ TimerCallbackReadFails
    \/ DwStop

DwLifeSpec == DwLifeInit /\ [][DwLifeNext]_vars

----------------------------------------------------------------------------
(* The washing machine's planning (WashingMachineDevice.planWashingProgram) *)
(* and the block searches it uses.  Durations are counted in the clock's    *)
(* unit, of which HourLen make one hour (a unit stands for 30 minutes,      *)
(* where the code counts minutes); an average price is kept as the exact    *)
(* fraction n / d, where the code computes a float.                         *)

Max(a, b) == IF a > b THEN a ELSE b

\* Math.ceil(a / b)
CeilDiv(a, b) == (a + b - 1) \div b

Rat(n, d) == [n |-> n, d |-> d]
RatLE(a, b) == a.n * b.d <= b.n * a.d
RatLT(a, b) == a.n * b.d < b.n * a.d
RatEq(a, b) == a.n * b.d = b.n * a.d

\* null of the two searches of the washing machine
Null == [ok |-> FALSE, startIndex |-> 0, startTime |-> 0, total |-> 0]

\* { startIndex, startTime, avgPrice } of the two searches, avgPrice being
\* total / hours
AvgBlock(prices, i, hours) ==
    [ok |-> TRUE, startIndex |-> i, startTime |-> prices[i].startsAt,
     total |-> TotalPrice(prices, i, hours)]

\* _findCheapestCombinedBlock(prices, hours) at the time nw: the scan starts
\* at the first future entry, or behind the last entry for none
FindCheapestCombinedBlock(prices, hours, nw) ==
    LET f == FutureStartIndex(prices, nw)
        startIdx == IF f = 0 THEN Len(prices) + 1 ELSE f
        b == CheapestScan(prices, hours, startIdx, 0, 0)
    IN  IF b = 0 THEN Null ELSE AvgBlock(prices, b, hours)

\* prices.findIndex(p => startsAt >= notBeforeTs), 0 for -1
NotBeforeIndex(prices, notBefore) ==
    IF \E i \in 1..Len(prices) : prices[i].startsAt >= notBefore
    THEN CHOOSE i \in 1..Len(prices) :
            /\ prices[i].startsAt >= notBefore
            /\ \A k \in 1..(i - 1) : ~(prices[k].startsAt >= notBefore)
    ELSE 0

\* _findCheapestBlockFrom(prices, hours, notBefore)
FindCheapestBlockFrom(prices, hours, notBefore) ==
    LET startIdx == NotBeforeIndex(prices, notBefore) IN
    IF startIdx = 0 THEN Null
    ELSE LET b == CheapestScan(prices, hours, startIdx, 0, 0) IN
         IF b = 0 THEN Null ELSE AvgBlock(prices, b, hours)

WashMinutes(c) == Max(1, c.duration)
DryMinutes(c) == IF c.dryerNeeded THEN Max(1, c.dryerDuration) ELSE 0
WashHours(c) == CeilDiv(WashMinutes(c), HourLen)
DryerHours(c) == IF c.dryerNeeded THEN CeilDiv(DryMinutes(c), HourLen) ELSE 0

\* variant 1 of the planning: one block for washing and drying
CombinedBlock(c, nw) ==
    FindCheapestCombinedBlock(c.feed.prices, WashHours(c) + DryerHours(c), nw)

\* variant 2: the washing block (null when the search throws) ...
WashBlock(c, nw) == FindCheapestConsecutiveHours(c.feed.prices, WashHours(c), nw)

\* ... and the dryer's block, searched from the end of the washing on
DryerNotBefore(c, washStart) == washStart + WashMinutes(c)

DryerBlock(c, nw) ==
    LET w == WashBlock(c, nw) IN
    IF w.ok
    THEN FindCheapestBlockFrom(c.feed.prices, DryerHours(c),
                               DryerNotBefore(c, w.startTime))
    ELSE Null

\* buildCombinedResult(block); washEnd and dryStart are 0 where the result
\* has no wash and dryer parts
BuildCombinedResult(c, block) ==
    IF ~block.ok THEN NoResult
    ELSE [variant |-> "combined", withDryer |-> TRUE,
          startTime |-> block.startTime,
          endTime |-> block.startTime + (WashMinutes(c) + DryMinutes(c)),
          washEnd |-> 0, dryStart |-> 0,
          avgPriceWash |-> Rat(block.total, WashHours(c) + DryerHours(c)),
          avgPriceDryer |-> Rat(block.total, WashHours(c) + DryerHours(c))]

\* buildSplitResult(wash, dry)
BuildSplitResult(c, wash, dry) ==
    IF ~wash.ok \/ ~dry.ok THEN NoResult
    ELSE LET washEnd == wash.startTime + WashMinutes(c)
             dryEnd  == dry.startTime + DryMinutes(c)
         IN  IF dry.startTime < washEnd THEN NoResult
             ELSE [variant |-> "split", withDryer |-> TRUE,
                   startTime |-> wash.startTime, endTime |-> dryEnd,
                   washEnd |-> washEnd, dryStart |-> dry.startTime,
                   avgPriceWash |-> Rat(wash.total, WashHours(c)),
                   avgPriceDryer |-> Rat(dry.total, DryerHours(c))]

CombinedResult(c, nw) == BuildCombinedResult(c, CombinedBlock(c, nw))
SplitResult(c, nw) == BuildSplitResult(c, WashBlock(c, nw), DryerBlock(c, nw))

\* splitAvg: (avgPriceWash * washMinutes + avgPriceDryer * dryMinutes) /
\* (washMinutes + dryMinutes)
SplitAvg(r, wm, dm) ==
    Rat(r.avgPriceWash.n * wm * r.avgPriceDryer.d
          + r.avgPriceDryer.n * dm * r.avgPriceWash.d,
        r.avgPriceWash.d * r.avgPriceDryer.d * (wm + dm))

\* combinedAvg <= splitAvg, the variant where the comparison is strict
PreferCombinedStrict(combinedAvg, splitAvg) == RatLT(combinedAvg, splitAvg)

\* combinedAvg <= splitAvg
PreferCombined(combinedAvg, splitAvg) == RatLE(combinedAvg, splitAvg)

\* step 4 of the planning with a dryer: the decision
Decision(c, combined, split) ==
    IF combined.variant # "none" /\ split.variant # "none"
    THEN IF PreferCombined(combined.avgPriceWash,
                           SplitAvg(split, WashMinutes(c), DryMinutes(c)))
         THEN combined ELSE split
    ELSE IF combined.variant # "none" THEN combined
    ELSE split

\* the planning without a dryer
WashOnlyResult(c, nw) ==
    LET w == WashBlock(c, nw) IN
    IF ~w.ok THEN NoResult
    ELSE [variant |-> "washOnly", withDryer |-> FALSE,
          startTime |-> w.startTime, endTime |-> w.startTime + WashMinutes(c),
          washEnd |-> 0, dryStart |-> 0,
          avgPriceWash |-> Rat(w.total, WashHours(c)),
          avgPriceDryer |-> Rat(0, 1)]

\* result of planWashingProgram once the prices are there ("none": it
\* returned without a plan)
PlanResult(c, nw) ==
    IF Len(c.feed.prices) = 0 THEN NoResult
    ELSE IF c.dryerNeeded
    THEN Decision(c, CombinedResult(c, nw), SplitResult(c, nw))
    ELSE WashOnlyResult(c, nw)

----------------------------------------------------------------------------
(* The calls of the searches and of the planning.  A call is drawn from    *)
(* the sets below; each action runs one function on it.                     *)

MaxEntries   == 3   \* entries of a price list
MaxPrice     == 2   \* prices are 1..MaxPrice
PlanMaxNow   == 3   \* the clock at the call
MaxNotBefore == 5   \* notBefore of a call
MaxDuration  == 3   \* duration of the washing programme
MaxDryer     == 2   \* duration of the dryer
MaxBuffer    == 1   \* transferBufferMinutes of the device

RECURSIVE SeqsUpTo(_, _)
SeqsUpTo(S, n) ==
    IF n = 0 THEN {<<>>}
    ELSE LET shorter == SeqsUpTo(S, n - 1) IN
         shorter \cup {Append(q, x) : q \in {r \in shorter : Len(r) = n - 1}, x \in S}

\* the list without its entry k
WithoutEntry(prices, k) ==
    [i \in 1..(Len(prices) - 1) |-> IF i < k THEN prices[i] ELSE prices[i + 1]]

\* price lists sorted by time, of consecutive hours or with one hour missing
PriceLists ==
    LET full == {Hourly(HourLen, t) : t \in SeqsUpTo(1..MaxPrice, MaxEntries)} IN
    full \cup {WithoutEntry(p, 2) : p \in {q \in full : Len(q) = MaxEntries}}

PlanFeeds == {NotConfigured} \cup {Feed(p) : p \in PriceLists}

\* a call of a search names the hours and notBefore, a call of the planning
\* the programme's duration, the dryer and the device's transfer buffer
SearchCalls ==
    [feed : {Feed(p) : p \in PriceLists}, hours : 1..2, notBefore : 0..MaxNotBefore,
     duration : {0}, dryerNeeded : {FALSE}, dryerDuration : {0},
     transferBuffer : {0}]

PlanCalls ==
    [feed : PlanFeeds, hours : {0}, notBefore : {0},
     duration : 1..MaxDuration, dryerNeeded : BOOLEAN,
     dryerDuration : 1..MaxDryer, transferBuffer : 0..MaxBuffer]

Calls == SearchCalls \cup PlanCalls

PlanKeep ==
    UNCHANGED <<now, store, events, registered, timers, handle, nextTid, tasks,
                switchOn, cleared, performedBy, persisted, budget, dwVars,
                reads>>

\* adapter.findCheapestConsecutiveHours(prices, hours)
CallFindCheapestConsecutiveHours ==
    /\ plan.op = "call" /\ plan.call \in SearchCalls
    /\ plan' = [plan EXCEPT !.op = "findCheapestConsecutiveHours",
                  !.block = FindCheapestConsecutiveHours(plan.call.feed.prices,
                                                         plan.call.hours, now)]
    /\ Step("findCheapestConsecutiveHours", 0)
    /\ PlanKeep

\* _findCheapestBlockFrom(prices, hours, notBefore)
CallFindCheapestBlockFrom ==
    /\ plan.op = "call" /\ plan.call \in SearchCalls
    /\ plan' = [plan EXCEPT !.op = "_findCheapestBlockFrom",
                  !.block = FindCheapestBlockFrom(plan.call.feed.prices,
                                                  plan.call.hours,
                                                  plan.call.notBefore)]
    /\ Step("_findCheapestBlockFrom", 0)
    /\ PlanKeep

\* _findCheapestCombinedBlock(prices, hours)
CallFindCheapestCombinedBlock ==
    /\ plan.op = "call" /\ plan.call \in SearchCalls
    /\ plan' = [plan EXCEPT !.op = "_findCheapestCombinedBlock",
                  !.block = FindCheapestCombinedBlock(plan.call.feed.prices,
                                                      plan.call.hours, now)]
    /\ Step("_findCheapestCombinedBlock", 0)
    /\ PlanKeep

\* planWashingProgram: getTibberPrices throws and the call is rejected, or
\* the planned.* states are written when there is a result
PlanWashingProgram ==
    /\ plan.op = "call" /\ plan.call \in PlanCalls
    /\ IF ~GetTibberPrices(plan.call.feed).ok
       THEN /\ plan' = [plan EXCEPT !.op = "planWashingProgram"]
            /\ Step("planWashingProgram_rejected", 0)
       ELSE LET r == PlanResult(plan.call, now) IN
            /\ plan' = [plan EXCEPT !.op = "planWashingProgram",
                          !.planned = IF r.variant = "none" THEN @ ELSE r]
            /\ Step("planWashingProgram", 0)
    /\ PlanKeep

PlanInit ==
    /\ now \in 0..PlanMaxNow
    /\ store = [running |-> FALSE, scheduled |-> FALSE, startTime |-> Empty]
    /\ events = <<>>
    /\ registered = TRUE
    /\ timers = {}
    /\ handle = NoTimer
    /\ nextTid = 1
    /\ tasks = EmptyBag
    /\ switchOn = FALSE
    /\ cleared = {}
    /\ performedBy = [i \in 1..MaxTimers |-> 0]
    /\ persisted = store
    /\ budget = 0
    /\ last = [op |-> "Init", v |-> 0]
    /\ power = 0
    /\ appTimers = {}
    /\ rawTimeouts = {}
    /\ dev = DevInit
    /\ obs = ObsInit
    /\ plan \in [op : {"call"}, call : Calls, block : {NoBlock}, planned : {NoResult}]
    /\ reads = <<>>

PlanNext ==
    \/ CallFindCheapestConsecutiveHours
    \/ CallFindCheapestBlockFrom
    \/ CallFindCheapestCombinedBlock
    \/ PlanWashingProgram

PlanSpec == PlanInit /\ [][PlanNext]_vars

----------------------------------------------------------------------------
(* Power samples in flight (main.js onStateChange, DishwasherDevice         *)
(* handlePowerChange).  The adapter calls device.onStateChange for each     *)
(* sample and does not await it, so a handler runs up to its next state     *)
(* read and is suspended there while further samples arrive.  The replies   *)
(* of the state reads come in the order the reads were issued.  Timer       *)
(* callbacks are left out here.                                             *)

MaxSamples    == 3   \* samples that arrive
SampleMaxTime == 8   \* the clock stops here

\* a handler suspended in handlePowerChange at getStateValue("running")
SampleHandler(p, nw) == [pc |-> "running", power |-> p, t |-> nw, isRunning |-> FALSE]

SampleKeep ==
    UNCHANGED <<events, registered, timers, handle, nextTid, tasks, cleared,
                performedBy, persisted, plan, switchOn, rawTimeouts, obs>>

\* a sample arrives: const now = Date.now(); await getStateValue("running")
SampleArrives ==
    /\ budget > 0 /\ budget' = budget - 1
    /\ \E p \in 0..MaxPower :
          /\ power' = p
          /\ reads' = Append(reads, SampleHandler(p, now))
          /\ Step("sample_arrives", p)
    /\ SampleKeep
    /\ UNCHANGED <<now, store, dev, appTimers>>

\* isRunning is there; await getStateValue("scheduled")
ReadRunningReplies ==
    /\ reads # <<>> /\ Head(reads).pc = "running"
    /\ reads' = Append(Tail(reads), [Head(reads) EXCEPT !.pc = "scheduled",
                                                        !.isRunning = store.running])
    /\ Step("read_running", Head(reads).t)
    /\ SampleKeep
    /\ UNCHANGED <<now, store, dev, appTimers, power, budget>>

\* isScheduled is there: the activity update, then handleStartDetection, or
\* handleEndDetection up to its await getStateValue("startTime")
ReadScheduledReplies ==
    /\ reads # <<>> /\ Head(reads).pc = "scheduled"
    /\ LET h  == Head(reads)
           d1 == ActivityDev(h.power, h.t, dev)
           r1 == ActivityReg(h.power, appTimers, dev)
       IN  IF h.isRunning
           THEN /\ dev' = d1
                /\ appTimers' = r1
                /\ reads' = Append(Tail(reads), [h EXCEPT !.pc = "startTime"])
                /\ Step(IF h.power > EPS THEN "sample_activity" ELSE "read_scheduled",
                        h.t)
           ELSE /\ dev' = HandleStartDetectionDev(h.power, h.t, store.scheduled, d1)
                /\ appTimers' =
                      IF InCooldown(h.t, d1) THEN r1
                      ELSE HandleStartDetectionReg(h.power, now, store.scheduled, d1, r1)
                /\ reads' = Tail(reads)
                /\ Step("sample_start_detection", h.t)
    /\ SampleKeep
    /\ UNCHANGED <<now, store, power, budget>>

\* startTime is there: the rest of handleEndDetection
ReadStartTimeReplies ==
    /\ reads # <<>> /\ Head(reads).pc = "startTime"
    /\ LET h == Head(reads)
           arms == ArmsEndTimer(h.power, h.t, store, dev)
       IN  /\ dev' = HandleEndDetectionDev(h.power, h.t, store, dev)
           /\ appTimers' = IF arms
                           THEN SetApplianceTimer(appTimers, "end", now, ZERO_GRACE)
                           ELSE appTimers
           /\ reads' = Tail(reads)
           /\ Step(IF arms THEN "sample_arm_end" ELSE "sample_end_checked", h.t)
    /\ SampleKeep
    /\ UNCHANGED <<now, store, power, budget>>

SampleTick ==
    /\ now < SampleMaxTime
    /\ now' = now + 1
    /\ Step("SampleTick", 0)
    /\ SampleKeep
    /\ UNCHANGED <<store, dev, appTimers, power, budget, reads>>

\* a dishwasher that runs long enough for end detection, or an idle one
SampleStores ==
    {[running |-> TRUE, scheduled |-> FALSE, startTime |-> ToISOString(BootTime)],
     [running |-> FALSE, scheduled |-> FALSE, startTime |-> Empty],
     [running |-> FALSE, scheduled |-> TRUE,
      startTime |-> ToISOString(SampleMaxTime + 1)]}

SampleInit ==
    /\ now = BootTime + MIN_RUNTIME
    /\ store \in SampleStores
    /\ events = <<>>
    /\ registered = TRUE
    /\ timers = {}
    /\ handle = NoTimer
    /\ nextTid = 1
    /\ tasks = EmptyBag
    /\ switchOn = FALSE
    /\ cleared = {}
    /\ performedBy = [i \in 1..MaxTimers |-> 0]
    /\ persisted = store
    /\ budget = MaxSamples
    /\ last = [op |-> "Init", v |-> 0]
    /\ power = 0
    /\ appTimers = {}
    /\ rawTimeouts = {}
    /\ dev = [DevInit EXCEPT !.lastAboveZeroTs = BootTime]
    /\ obs = ObsInit
    /\ plan = NoPlan
    /\ reads = <<>>

SampleNext ==
    \/ SampleArrives
    \/ ReadRunningReplies
    \/ ReadScheduledReplies
    \/ ReadStartTimeReplies
    \/ SampleTick

SampleSpec == SampleInit /\ [][SampleNext]_vars

----------------------------------------------------------------------------
(* Vocabulary of the properties *)

\* task t took the step (it was resumed, and is gone or somewhere else now)
Acted(t) == last'.op # "Restart" /\ CopiesIn(t, tasks') < CopiesIn(t, tasks)

\* a startTime value that names an instant
IsInstant(val) == val.k \in {"raw", "iso"}

\* no handler is in flight and no event waits for one
Quiet == registered /\ tasks = EmptyBag /\ events = <<>>

ArmSteps == {"sc_arm", "mt_arm", "ms_arm", "rc_arm", "rs_arm"}

----------------------------------------------------------------------------
C2_ScheduleStartAt ==
    [][ /\ last'.op = "scheduleStartAt" => store'.startTime = ToISOString(last'.v)
        /\ last'.op = "sc_scheduled" => store'.scheduled = TRUE /\ timers' = timers
        /\ last'.op = "sc_execute" =>
              /\ last'.v <= now'
              /\ timers' = timers /\ nextTid' = nextTid
              /\ \E t \in BagToSet(tasks') :
                    t.pc = "ex_rd" /\ t.by = "scheduleStartAt" /\ t.origin = Immediate
        /\ last'.op = "sc_arm" =>
              /\ last'.v > now'
              /\ timers' = {[id |-> handle', due |-> last'.v]}
              /\ BagCardinality(tasks') < BagCardinality(tasks)
              /\ performedBy' = performedBy /\ switchOn' = switchOn
        /\ \A x \in timers' : performedBy'[x.id] = 0
      ]_vars

\* scheduleStartAt just armed the timer for the instant it stored
C2_Witness ==
    /\ last.op = "sc_arm"
    /\ store.scheduled
    /\ store.startTime = ToISOString(last.v)
    /\ timers = {[id |-> handle, due |-> last.v]}
    /\ last.v > now

\* restoreScheduledOperations found scheduled = true and an instant in startTime
RestoreStep(t) == t.pc = "rs_2" /\ Acted(t) /\ t.rs = TRUE /\ IsInstant(t.rt)

\* C3 as claimed: restore arms for now < T < now+48h, executes at once for
\* T <= now, cancels (no actuation) for T >= now+48h.
C3_RestoreAsClaimed ==
    [][ \A t \in Running : RestoreStep(t) =>
          LET T == GetTime(t.rt) IN
          /\ (now < T /\ T < now + Horizon) =>
                last'.op = "rs_arm" /\ timers' = {[id |-> handle', due |-> T]}
          /\ T <= now => last'.op = "rs_execute"
          /\ T >= now + Horizon => last'.op = "rs_cancel" /\ switchOn' = switchOn
      ]_vars

\* C3 amended: restore arms for now < T <= now+48h, executes at once for
\* T <= now, cancels (no actuation, no timer) for T > now+48h.
C3_Restore ==
    [][ \A t \in Running : RestoreStep(t) =>
          LET T == GetTime(t.rt) IN
          /\ (now < T /\ T <= now + Horizon) =>
                last'.op = "rs_arm" /\ timers' = {[id |-> handle', due |-> T]}
          /\ T <= now =>
                /\ last'.op = "rs_execute"
                /\ \E u \in BagToSet(tasks') : u.pc = "ex_rd" /\ u.by = "init"
                /\ timers' = timers
          /\ T > now + Horizon =>
                /\ last'.op = "rs_cancel"
                /\ \E u \in BagToSet(tasks') : u.pc = "ca_rd" /\ u.by = "init"
                /\ switchOn' = switchOn /\ timers' = timers /\ nextTid' = nextTid
      ]_vars

\* restore armed a timer for a start exactly 48 h away
C3_Witness ==
    /\ last.op = "rs_arm"
    /\ last.v = now + Horizon
    /\ timers = {[id |-> handle, due |-> now + Horizon]}

\* C4: a schedule persisted before a restart (scheduled = true, startTime = T,
\* now < T < now+48h) is still there when init() has returned: scheduled is
\* true, startTime is T and a timer due at T is armed.
C4_SurvivesRestart ==
    [][ ( /\ ~registered /\ registered'
          /\ persisted.scheduled
          /\ IsInstant(persisted.startTime)
          /\ now' < GetTime(persisted.startTime)
          /\ GetTime(persisted.startTime) < now' + Horizon )
        => ( /\ store'.scheduled
             /\ store'.startTime = persisted.startTime
             /\ \E x \in timers' : x.due = GetTime(persisted.startTime) )
      ]_vars

\* C5: with no handler in flight, scheduled = true has an armed timer.
C5_ScheduledHasTimer == Quiet => (store.scheduled => timers # {})

\* C6: once _executeScheduledStart is in its try block it leaves only through
\* the finally step, which writes scheduled = false, whether the notification
\* or performScheduledStart succeeded or threw.
C6_FinallyResets ==
    [][ \A t \in Running : (t.pc \in {"ex_nt", "ex_pf"} /\ Acted(t)) =>
          \/ last'.op = "ex_perform" /\ [t EXCEPT !.pc = "ex_pf"] \in BagToSet(tasks')
          \/ store'.scheduled = FALSE /\ [t EXCEPT !.pc = "ex_fin"] \in BagToSet(tasks')
      ]_vars

\* performScheduledStart threw and scheduled was reset all the same
C6_Witness == last.op = "ex_finally_perform" /\ ~store.scheduled

\* C7: a timer causes at most one invocation of performScheduledStart, and a
\* timer that was cleared (replaced or cancelled) while pending causes none.
C7_OncePerTimer ==
    \A i \in 1..MaxTimers :
        /\ performedBy[i] <= 1
        /\ i \in cleared =>
              /\ performedBy[i] = 0
              /\ \A t \in Running : t.origin # i

\* one timer was cleared while pending, another one fired and invoked the start
C7_Witness ==
    /\ cleared # {}
    /\ \E i \in 1..MaxTimers : performedBy[i] = 1 /\ i \notin cleared

\* C8: cancelScheduledStart on an appliance that is not scheduled changes
\* nothing and notifies nobody; when it cancels, scheduled is false and no timer
\* is left afterwards, so the next call in a row is such a no-op; only a call
\* that found scheduled = true clears, writes or notifies.
C8_CancelIdempotent ==
    [][ /\ \A t \in Running : (t.pc = "ca_rd" /\ Acted(t) /\ t.rs # TRUE) =>
              /\ last'.op = "ca_skip"
              /\ store' = store /\ timers' = timers /\ handle' = handle
              /\ events' = events /\ switchOn' = switchOn
        /\ last'.op = "ca_clear" =>
              /\ store'.scheduled = FALSE /\ timers' = {} /\ handle' = NoTimer
              /\ \E t \in Running : t.pc = "ca_rd" /\ Acted(t) /\ t.rs = TRUE
        /\ last'.op = "ca_notify" =>
              \E t \in Running : t.pc = "ca_wr" /\ Acted(t) /\ t.rs = TRUE /\ t.notify
      ]_vars

\* a cancel cleared the timer, and the call that followed it was a no-op
C8_Witness ==
    /\ last.op = "ca_skip"
    /\ cleared # {}
    /\ ~store.scheduled
    /\ timers = {}
    /\ tasks = EmptyBag

\* C9: when the handler of an operator's scheduled = false has returned, with
\* no other handler in flight, no event waiting and the flag as the handler
\* read it, no scheduled-start timer is pending and scheduled is false.
C9_ManualOffCancels ==
    [][ \A t \in Running :
          ( /\ t.by = "manualScheduledFalse" /\ Acted(t)
            /\ last'.op \in {"ca_skip", "ca_done"}
            /\ tasks' = EmptyBag /\ events' = <<>>
            /\ last'.op = "ca_skip" => store.scheduled = t.rs )
          => (timers' = {} /\ ~store'.scheduled)
      ]_vars

----------------------------------------------------------------------------
(* Vocabulary of the dishwasher's properties *)

\* the keyed timers of the given keys
Pending(reg, keys) == {x \in reg : x.key \in keys}

SampleSteps ==
    {"sample_reset_end", "sample_high", "sample_arm_end", "sample_low",
     "sample_cooldown", "sample_arm_detection", "sample_arm_start", "sample_debounce"}

\* the steps in which handleManualStartTimeChange ran
DwStartTimeSteps ==
    {"startTime_ignored", "startTime_past", "startTime_invalid", "startTime_rearm"}

C12_InvalidStartTimeIgnored ==
    [][ (last'.op \in DwStartTimeSteps /\ IsNaNDate(store'.startTime)) =>
          /\ store'.scheduled = store.scheduled
          /\ appTimers' = appTimers
          /\ dev' = dev
          /\ switchOn' = switchOn
      ]_vars

\* C13: with no operator edit at all, running and scheduled are never both true.
C13_NotRunningAndScheduled ==
    budget = MaxOps => ~(store.running /\ store.scheduled)

\* C14: once the manager has dealt with an operator's write of startTime, with
\* no handler in flight and a start timer armed, scheduled = true has an
\* instant in startTime.
C14_ScheduledHasStartTime ==
    (Quiet /\ last.op = "mt_invalid" /\ timers # {} /\ store.scheduled) =>
        IsInstant(store.startTime)

C16_ManualStartOnce ==
    [][ /\ obs'.manual <= 1
        /\ last'.op = "handleManualStart" =>
              /\ switchOn' = FALSE
              /\ [key |-> "replan", due |-> now + ReplanDelay] \in rawTimeouts'
      ]_vars

\* C17: handleManualStart is called only with automaticStartInProgress false
\* and scheduled false, and a sample arms the manual-start detection timer only
\* then.
C17_NoManualStartWhileAutomatic ==
    [][ /\ last'.op = "handleManualStart" =>
              ~dev.automaticStartInProgress /\ ~store.scheduled
        /\ last'.op = "sample_arm_detection" =>
              ~dev.automaticStartInProgress /\ ~store.scheduled
        /\ (last'.op = "detection_none") =>
              switchOn' = switchOn /\ rawTimeouts' = rawTimeouts /\ store' = store
      ]_vars

\* the detection timer fired on power above EPS during an automatic start or
\* with a schedule pending, and nothing was done
C17_Witness ==
    /\ last.op = "detection_none"
    /\ power > EPS
    /\ ~store.running
    /\ dev.automaticStartInProgress \/ store.scheduled

\* C18: a sample that arrives less than cooldownAfterFinish after the last
\* finish arms no detection or start timer, and the sample behind a confirmed
\* start or manual start arrived at least that long after the finish.
C18_Cooldown ==
    [][ /\ (last'.op \in SampleSteps /\ ~store.running
            /\ now - dev.lastFinishTs < COOLDOWN) =>
              /\ Pending(appTimers', {"detection", "start"})
                    = Pending(appTimers, {"detection", "start"})
              /\ store' = store
        /\ last'.op \in {"handleManualStart", "startDevice"} =>
              (now - DETECT_TIME) - dev.lastFinishTs >= COOLDOWN
      ]_vars

\* a sample above EPS right after a finish was ignored
C18_Witness ==
    /\ last.op = "sample_cooldown"
    /\ power > EPS
    /\ dev.lastFinishTs > 0
    /\ now - dev.lastFinishTs < COOLDOWN
    /\ Pending(appTimers, {"detection", "start"}) = {}

C21_InvalidRestoreCancels ==
    [][ (~registered /\ registered' /\ store.scheduled
         /\ ~IsEmpty(store.startTime) /\ IsNaNDate(store.startTime)) =>
          /\ ~store'.scheduled
          /\ appTimers' = {}
          /\ switchOn' = switchOn
      ]_vars

\* C22: when the switch write of the dishwasher's scheduled start fails, for a
\* start planned at a proper instant, scheduled is false afterwards.
C22_SwitchFailureClearsScheduled ==
    [][ (last'.op = "execute_switch_failed" /\ IsInstant(store.startTime)) =>
          ~store'.scheduled
      ]_vars

\* the feeds the claim calls unavailable: not configured, no data, too few
\* entries for the required hours
Unavailable(feed) ==
    ~feed.configured \/ ~feed.today \/ Len(feed.prices) < REQUIRED_HOURS

\* C23: with an unavailable feed the lookups of scheduleOptimalStart throw, and
\* a replan whose lookup threw ends in the catch block having changed neither
\* the states nor the timers nor the switch, with no new timeout for a retry.
C23_FeedUnavailableAborts ==
    [][ Due(rawTimeouts, "replan") =>
          /\ \A feed \in ReplanFeeds(now) :
                Unavailable(feed) => ~OptimalBlock(feed, REQUIRED_HOURS, now).ok
          /\ last'.op = "tibber_failed" =>
                /\ store' = store
                /\ appTimers' = appTimers
                /\ dev' = dev
                /\ switchOn' = switchOn
                /\ rawTimeouts' \subseteq rawTimeouts
      ]_vars

\* a replan after a manual start failed and left the dishwasher unscheduled
C23_Witness ==
    /\ last.op = "tibber_failed"
    /\ obs.manual > 0
    /\ ~store.scheduled
    /\ IsEmpty(store.startTime)
    /\ Pending(appTimers, {"scheduled"}) = {}
    /\ rawTimeouts = {}

\* the steps that end with a rejection nobody handles
EscapedSteps == {"sample_rejected", "callback_rejected"}

\* C24: no step of handlePowerChange or of a detection, start, end or post
\* timer callback ends with an unhandled rejection.
C24_NoErrorEscapes ==
    [][ last'.op \notin EscapedSteps ]_vars

\* C25: once the dishwasher is stopped, no timer callback of it changes a
\* state, arms a timer or actuates the switch.
C25_NothingAfterStop ==
    [][ obs.stopped =>
          /\ store' = store
          /\ appTimers' = appTimers
          /\ switchOn' = switchOn
      ]_vars

----------------------------------------------------------------------------
(* The windows of the price list, by the clock's unit *)

\* the entry of the list whose hour holds the instant t (0: no price known)
EntryAt(prices, t) ==
    IF \E i \in 1..Len(prices) :
          prices[i].startsAt <= t /\ t < prices[i].startsAt + HourLen
    THEN CHOOSE i \in 1..Len(prices) :
          prices[i].startsAt <= t /\ t < prices[i].startsAt + HourLen
    ELSE 0

\* the window [s, s + len) lies within hours with a known price
Covered(prices, s, len) ==
    \A t \in s..(s + len - 1) : EntryAt(prices, t) # 0

\* price of the window [s, s + len), summed over its units
RECURSIVE WindowCost(_, _, _)
WindowCost(prices, s, len) ==
    IF len = 0 THEN 0
    ELSE prices[EntryAt(prices, s)].total + WindowCost(prices, s + 1, len - 1)

\* the search set: notBefore itself and every interval start from it on
Candidates(prices, notBefore) ==
    {notBefore} \cup {prices[i].startsAt : i \in {k \in 1..Len(prices) :
                                                  prices[k].startsAt >= notBefore}}

CoveredCandidates(prices, notBefore, len) ==
    {s \in Candidates(prices, notBefore) : Covered(prices, s, len)}

\* a search was called; what it was to search from, and for how long
Searched == plan.op \in {"findCheapestConsecutiveHours", "_findCheapestBlockFrom"}
SearchedFrom == IF plan.op = "_findCheapestBlockFrom" THEN plan.call.notBefore ELSE now
SearchedLen == plan.call.hours * HourLen

\* C26: the window a search returns costs no more than any fully covered
\* window that starts at notBefore or at an interval start from notBefore on,
\* and no such window of the same cost starts earlier.
C26_CheapestOfCandidates ==
    (Searched /\ plan.block.ok) =>
        \A s \in CoveredCandidates(plan.call.feed.prices, SearchedFrom, SearchedLen) :
            LET cost == WindowCost(plan.call.feed.prices, s, SearchedLen) IN
            /\ plan.block.total * HourLen <= cost
            /\ plan.block.total * HourLen = cost => plan.block.startTime <= s

\* C27: findCheapestConsecutiveHours reports no window exactly when no
\* candidate start has a fully covered window, and a window it returns lies
\* within hours with a known price.
C27_NoneIffNoCandidate ==
    plan.op = "findCheapestConsecutiveHours" =>
        /\ ~plan.block.ok <=>
              CoveredCandidates(plan.call.feed.prices, now, SearchedLen) = {}
        /\ plan.block.ok =>
              Covered(plan.call.feed.prices, plan.block.startTime, SearchedLen)

\* C28: a window findCheapestConsecutiveHours returns is as long as the
\* duration asked for.
C28_WindowHasDuration ==
    (plan.op = "findCheapestConsecutiveHours" /\ plan.block.ok) =>
        plan.block.endTime - plan.block.startTime = SearchedLen

----------------------------------------------------------------------------
(* The plans of a wash with a dryer *)

\* the planning ran for a wash with a dryer, and both variants exist
BothVariants ==
    /\ last.op = "planWashingProgram"
    /\ plan.call.dryerNeeded
    /\ Len(plan.call.feed.prices) > 0
    /\ CombinedResult(plan.call, now).variant # "none"
    /\ SplitResult(plan.call, now).variant # "none"

\* average price of a plan, weighted by the minutes of washing and of drying
TimeWeighted(r, c) ==
    LET w == r.avgPriceWash
        d == r.avgPriceDryer
    IN  Rat(w.n * c.duration * d.d + d.n * c.dryerDuration * w.d,
            w.d * d.d * (c.duration + c.dryerDuration))

C30_DryerAfterTransferBuffer ==
    (last.op = "planWashingProgram" /\ plan.planned.variant = "split") =>
        plan.planned.dryStart >= plan.planned.washEnd + plan.call.transferBuffer

\* C31: once planWashingProgram has planned a wash, the washing machine's
\* startTime holds the planned start, scheduled is true and a timer is armed
\* for the start.
C31_PlanSchedulesStart ==
    (last.op = "planWashingProgram" /\ plan.planned.variant # "none") =>
        /\ store.scheduled
        /\ store.startTime = ToISOString(plan.planned.startTime)
        /\ handle # NoTimer

\* C32: the effects of power samples are applied in the order of the
\* samples; so when a sample arms the end-grace timer, no sample that came
\* after it has recorded its activity yet.
C32_SamplesInOrder ==
    last.op = "sample_arm_end" => dev.lastAboveZeroTs <= last.v

----------------------------------------------------------------------------
(* Handles and the timers they stand for *)

\* the handle of the key is set
HandleSet(d, key) ==
    IF key = "detection" THEN d.detectionTimer
    ELSE IF key = "start" THEN d.startTimer
    ELSE IF key = "end" THEN d.endTimer
    ELSE IF key = "post" THEN d.postTimer
    ELSE d.scheduledStartTimer

\* a handle that is set stands for a timer that is still pending, so a
\* cancel through it never meets a timer that has fired
HandlesLive(keys) ==
    \A key \in keys : HandleSet(dev, key) => Pending(appTimers, {key}) # {}

C34_StartTimerNeedsSchedule ==
    [][ (dev'.startTimer /\ ~dev.startTimer) =>
            (store.scheduled \/ dev.automaticStartInProgress)
      ]_vars

OperatorCancels == {"cancelScheduledStart", "manualScheduledFalse"}

\* an execution of the scheduled start that has read scheduled = true and is
\* suspended in sendNotification: performScheduledStart is its next call
SuspendedBeforePerform(bag) == {t \in BagToSet(bag) : t.pc = "ex_nt"}

\* C36: once cancelScheduledStart has returned with scheduled = false, no
\* switch-on of the cancelled schedule follows.  With one cancellation among
\* at most two operations there is a single schedule, so when the cancellation
\* returns no execution is left suspended ahead of performScheduledStart.
C36_NoStartAfterCancel ==
    [][ (\E t \in Running : /\ t.pc = "ca_nt"
                            /\ t.by \in OperatorCancels
                            /\ Acted(t)
                            /\ last'.op = "ca_done"
                            /\ ~store'.scheduled
                            /\ budget' >= MaxOps - 2)
            => SuspendedBeforePerform(tasks') = {}
      ]_vars

\* C37: while no scheduling handler is in flight, a pending scheduled-start
\* timer implies scheduled = true.
C37_TimerImpliesScheduled == Quiet => (timers # {} => store.scheduled)

\* C38: each run of the dishwasher is declared finished at most once:
\* finishDevice takes effect only on a run that is still marked running, and
\* no end-grace or post-confirm timer is pending once running is false.
C38_FinishedOnce ==
    [][ /\ last'.op = "finishDevice" => store.running
        /\ ~store'.running => Pending(appTimers', {"end", "post"}) = {}
      ]_vars

----------------------------------------------------------------------------
(* End detection under fair scheduling: the dishwasher is restored from the *)
(* states of an earlier process, the power meter reports once per unit of   *)
(* time, and every timer that is due fires.                                 *)

LiveMaxTime == 12  \* the clock runs BootTime..BootTime + LiveMaxTime

\* what an earlier process leaves behind: idle, a start planned for later, a
\* planned start that is overdue, or a run in progress
LiveStores ==
    {[running |-> FALSE, scheduled |-> FALSE, startTime |-> Empty],
     [running |-> FALSE, scheduled |-> TRUE, startTime |-> ToISOString(BootTime + 1)],
     [running |-> FALSE, scheduled |-> TRUE, startTime |-> ToISOString(BootTime - 1)],
     [running |-> TRUE, scheduled |-> FALSE, startTime |-> ToISOString(BootTime - 1)]}

\* the clock advances by one unit and the power meter reports: onStateChange
\* passes the sample to handlePowerChange
MeterReports ==
    /\ DwKeep
    /\ registered /\ ~obs.stopped
    /\ now < BootTime + LiveMaxTime
    /\ \A x \in AllTimers : x.due > now
    /\ now' = now + 1
    /\ \E p \in 0..MaxPower :
          LET d1 == ActivityDev(p, now', dev)
              r1 == ActivityReg(p, appTimers, dev)
          IN  /\ power' = p
              /\ IF store.running
                 THEN /\ dev' = HandleEndDetectionDev(p, now', store, d1)
                      /\ appTimers' = HandleEndDetectionReg(p, now', store, d1, r1)
                 ELSE /\ dev' = HandleStartDetectionDev(p, now', store.scheduled, d1)
                      /\ appTimers' =
                            HandleStartDetectionReg(p, now', store.scheduled, d1, r1)
              /\ obs' = IF p <= EPS
                        THEN [obs EXCEPT !.manual = 0, !.lowTs = now']
                        ELSE obs
              /\ Step("meter_report", p)
    /\ UNCHANGED <<store, switchOn, rawTimeouts>>

DwLiveInit ==
    /\ DwLifeInit
    /\ store \in LiveStores

DwLiveNext ==
    \/ DwRestore
    \/ MeterReports
    \/ DetectionTimerFires
    \/ StartTimerFires
    \/ EndTimerFires
    \/ PostTimerFires
    \/ ReplanFires
    \/ ScheduledTimerFires
    \/ AutoFlagFires
    \/ ScheduledTimerSwitchFails

\* init() runs, the meter keeps reporting, and Node runs the callback of
\* every timer that is due
DwLiveFairness ==
    /\ WF_vars(DwRestore)
    /\ WF_vars(MeterReports)
    /\ WF_vars(DetectionTimerFires)
    /\ WF_vars(StartTimerFires)
    /\ WF_vars(EndTimerFires)
    /\ WF_vars(PostTimerFires)
    /\ WF_vars(ReplanFires)
    /\ WF_vars(ScheduledTimerFires \/ ScheduledTimerSwitchFails)
    /\ WF_vars(AutoFlagFires)

DwLiveSpec == DwLiveInit /\ [][DwLiveNext]_vars /\ DwLiveFairness

\* the time end detection takes once a run may end: the minimum runtime, the
\* end-grace timer and the post-confirm timer
EndDetectionTime == MIN_RUNTIME + ZERO_GRACE + POST_CONFIRM

\* C39: a dishwasher that is running while every sample is <= EPS is
\* eventually no longer running, whichever path started the run; a run is
\* looked at when the clock leaves end detection the time it takes.
C39_EndDetected ==
    (store.running /\ power <= EPS /\ now + EndDetectionTime <= BootTime + LiveMaxTime)
        ~> (~store.running \/ power > EPS)

\* C40: automaticStartInProgress, once set by a scheduled start, is eventually
\* reset, by startDevice or by the timeout, on every path through
\* executeScheduledStart; a flag is looked at when the clock leaves the
\* timeout the time it takes.
C40_SuppressionBounded ==
    (dev.automaticStartInProgress /\ now + AutoFlagTime <= BootTime + LiveMaxTime)
        ~> ~dev.automaticStartInProgress

====
